---- MODULE Spec2Model ----
(***************************************************************************)
(* A model of the dinkytime core: the seeded generator (utils/random.ts),  *)
(* the keyboard mapper (core/KeyboardMapper.ts), the audio engine with its *)
(* four loop layers (core/AudioEngine.ts, LoopLayerManager), the visual    *)
(* engine (core/VisualEngine.ts) and the key handler of JamSession.tsx.    *)
(*                                                                         *)
(* Numbers.  TLC's integers are 32-bit, the generator's register is an     *)
(* unsigned 32-bit value and the products of the recurrence need 53 bits,  *)
(* so a register is kept as two 16-bit limbs [hi, lo] (value hi*2^16+lo)   *)
(* and the recurrence is computed limb by limb; this is exact.  A draw     *)
(* u = register / 2^32 is kept as the register itself.  A value            *)
(* min + u*(max-min) with integer min, max is kept as [int, frac]: its     *)
(* floor and the numerator of its fractional part over 2^32; the double    *)
(* arithmetic of the source is exact on these values (at most 47           *)
(* significant bits).                                                      *)
(***************************************************************************)
EXTENDS Integers, Sequences, FiniteSets, TLC

VARIABLES
    rngStore,    \* SeededRandom instances under test: instance -> register
    rngScript,   \* the calls the driver has issued so far, in order
    rngHist,     \* per instance: the [out, state] of every call it has run
    mapSeed,     \* the seed both KeyboardMapper instances are built from
    mapStore,    \* KeyboardMapper instances: instance -> mapper, or NoObject
    mapAnswer,   \* the last lookup a mapper answered, or NoObject
    audio,       \* the AudioEngine object, its LoopLayerManager included
    tone,        \* the Tone.js backend and the timers the engine has set
    audioLast,   \* the last engine call: its name, result and backend calls
    audioCount,  \* how many calls of each bounded kind have been made
    now,         \* the clock (Date.now(), Tone.now()), in milliseconds
    visual,      \* the VisualEngine object
    visualLast,  \* the last VisualEngine call: its name and arguments
    visualCount, \* how many calls of each bounded kind have been made
    session,     \* the JamSession components: the original and its replay
    keys         \* the key events the original session has been given

rngVars == <<rngStore, rngScript, rngHist>>
mapVars == <<mapSeed, mapStore, mapAnswer>>
audioVars == <<audio, tone, audioLast, audioCount>>

visualVars == <<visual, visualLast, visualCount>>

sessionVars == <<session, keys>>

vars == <<rngVars, mapVars, audioVars, now, visualVars, sessionVars>>

\* null in place of an object, undefined in place of a string
NoObject == [null |-> TRUE]
Undefined == "undefined"

\* the parts of the state a specification does not exercise stay idle
RngIdle ==
    /\ rngStore = <<>>
    /\ rngScript = <<>>
    /\ rngHist = <<>>

MapIdle ==
    /\ mapSeed = 0
    /\ mapStore = <<>>
    /\ mapAnswer = NoObject

AudioIdle ==
    /\ audio = NoObject
    /\ tone = NoObject
    /\ audioLast = NoObject
    /\ audioCount = NoObject

ClockIdle == now = 0

VisualIdle ==
    /\ visual = NoObject
    /\ visualLast = NoObject
    /\ visualCount = NoObject

SessionIdle ==
    /\ session = <<>>
    /\ keys = <<>>

----------------------------------------------------------------------------
(* Bounds of the model                                                     *)

SeedCount == 3          \* number of seeds explored
SeedStride == 314159    \* distance between explored seeds
MaxCalls == 3           \* length of a generator call script
MaxLoops == 3           \* startBeatLoop calls on one engine
MaxControls == 2        \* togglePlayPause, adjustPitch and adjustTempo calls
MaxPlays == 9           \* playNote calls on one engine
MaxClock == 125         \* the clock stops here, in milliseconds
ClockStep == 125        \* the clock advances by this much
MaxOver == 2            \* addPermanentElement calls beyond the capacity
MaxAnimatedAdds == 2    \* addAnimatedElement calls on one engine
MaxBursts == 2          \* burstParticles calls on one engine
MaxFrames == 1          \* frames an animated element is moved through
MaxDrawCalls == 4       \* drawing calls on one engine
FrameGap == 4000        \* the clock advances by this much between frames
MaxFrameClock == 8000   \* the clock of the canvas stops here
MaxDraws == 24          \* next() calls on one generator of SpecSeed
MaxMixerCalls == 3      \* mixer calls on one engine
EffectStep == 250       \* milliseconds the clock of the mixer advances by
MaxEffectClock == 500   \* the clock of the mixer stops here
MaxEvents == 3          \* key and pointer events given to one component
MaxKeys == 2            \* key events given to a session
OverlayStep == 1000     \* the clock of the overlay advances by this much
MaxOverlayClock == 3000 \* the clock of the overlay stops here
MaxFlashes == 2         \* flashMath calls on one engine
MaxIdAdds == 1          \* calls of each kind of add beside the bursts

----------------------------------------------------------------------------
(* utils/random.ts: SeededRandom                                           *)

Limb == 2^16

LcgMultiplier == 1664525
LcgIncrement == 1013904223
SeedLimit == 1000000    \* JamSession.tsx: Math.floor(Math.random() * 1000000)

\* "const x = e; ... x ...": e is computed once and F is the rest of the
\* block, which names it x
With(e, F(_)) == CHOOSE r \in { F(x) : x \in {e} } : TRUE

Min(a, b) == IF a <= b THEN a ELSE b
Max(a, b) == IF a >= b THEN a ELSE b

\* constructor(seed): this.seed = seed, for an integer seed in 0 .. 2^31-1
SeededRandom(seed) == [hi |-> seed \div Limb, lo |-> seed % Limb]

Seeds == { (i * SeedStride + 42) % SeedLimit : i \in 0..(SeedCount - 1) }

\* this.seed = (this.seed * 1664525 + 1013904223) % 2 ** 32
Lcg(s) ==
    LET aLo == LcgMultiplier % Limb
        aHi == LcgMultiplier \div Limb
        cLo == LcgIncrement % Limb
        cHi == LcgIncrement \div Limb
        t0 == s.lo * aLo + cLo
        t1 == s.hi * aLo + s.lo * aHi + cHi + (t0 \div Limb)
    IN  [hi |-> t1 % Limb, lo |-> t0 % Limb]

\* s * n / 2^32 for a register s and an integer 0 <= n < 2^15, as
\* [int |-> floor, frac |-> numerator of the fractional part over 2^32]
Scale(s, n) ==
    LET t0 == s.lo * n
        t1 == s.hi * n + (t0 \div Limb)
    IN  [int |-> t1 \div Limb, frac |-> [hi |-> t1 % Limb, lo |-> t0 % Limb]]

\* next(): advances the register and returns register / 2^32
next(s) == With(Lcg(s), LAMBDA s1 : [rng |-> s1, val |-> s1])

\* range(min, max): min + this.next() * (max - min), integer min <= max
range(s, min, max) ==
    With(next(s), LAMBDA n :
    With(Scale(n.val, max - min), LAMBDA m :
        [rng |-> n.rng, val |-> [int |-> min + m.int, frac |-> m.frac]]))

\* int(min, max): Math.floor(this.range(min, max + 1))
int(s, min, max) ==
    With(range(s, min, max + 1), LAMBDA r : [rng |-> r.rng, val |-> r.val.int])

\* choice(array): array[this.int(0, array.length - 1)], array non-empty
\* (sequences are 1-based, arrays 0-based)
choice(s, array) ==
    With(int(s, 0, Len(array) - 1), LAMBDA i : [rng |-> i.rng, val |-> array[i.val + 1]])

Swap(a, i, j) == [a EXCEPT ![i] = a[j], ![j] = a[i]]

\* the loop of shuffle from 0-based index i down to 1
RECURSIVE ShuffleFrom(_, _, _)
ShuffleFrom(s, result, i) ==
    IF i <= 0 THEN [rng |-> s, val |-> result]
    ELSE With(int(s, 0, i), LAMBDA j :
             ShuffleFrom(j.rng, Swap(result, i + 1, j.val + 1), i - 1))

\* shuffle(array): Fisher-Yates on a copy
shuffle(s, array) == ShuffleFrom(s, array, Len(array) - 1)

RECURSIVE SumSeq(_)
SumSeq(w) == IF w = <<>> THEN 0 ELSE Head(w) + SumSeq(Tail(w))

\* the loop with "random < 0" as its test
RECURSIVE WeightedPickBelow(_, _, _, _, _)
WeightedPickBelow(items, weights, draw, i, cum) ==
    IF i > Len(items) THEN items[Len(items)]
    ELSE IF draw.int < cum + weights[i] THEN items[i]
    ELSE WeightedPickBelow(items, weights, draw, i + 1, cum + weights[i])

\* the loop of weightedChoice: draw is u * totalWeight as [int, frac];
\* cum is the sum of weights[0..i]; "random -= weights[i]; random <= 0"
\* holds at the first i with draw <= cum
RECURSIVE WeightedPick(_, _, _, _, _)
WeightedPick(items, weights, draw, i, cum) ==
    IF i > Len(items) THEN items[Len(items)]
    ELSE LET c == cum + weights[i]
         IN  IF draw.int < c \/ (draw.int = c /\ draw.frac = [hi |-> 0, lo |-> 0])
             THEN items[i]
             ELSE WeightedPick(items, weights, draw, i + 1, c)

\* weightedChoice(items, weights), weights as non-negative integers
weightedChoice(s, items, weights) ==
    With(range(s, 0, SumSeq(weights)), LAMBDA r :
        [rng |-> r.rng, val |-> WeightedPick(items, weights, r.val, 1, 0)])

----------------------------------------------------------------------------
(* constants/distributions.ts                                              *)

\* FUNCTION_DISTRIBUTION in declaration order (the order of Object.entries);
\* the weights are in hundredths: 0.10 is 10.  The source adds the weights
\* as doubles; a draw is a multiple of 2^-32, no cumulative weight but the
\* total is a multiple of 25/100, so a draw is never within rounding error
\* of a cumulative weight and the integer comparison picks the same item.
FunctionTypes ==
    << "synth-note", "percussion", "sound-effect", "beat-pattern",
       "shape-permanent", "symbol-spawn", "word-spawn", "animal-spawn",
       "number-spawn", "math-flash", "animation-bounce", "animation-move",
       "animation-explode", "background-color", "background-effect",
       "shader-glitch" >>

FunctionWeights == << 10, 6, 12, 6, 3, 4, 5, 10, 2, 6, 10, 10, 13, 1, 1, 1 >>

ROOT_NOTES == << "C3", "D3", "E3", "F3", "G3", "A3" >>

----------------------------------------------------------------------------
(* Specification SpecRng: two SeededRandom instances built from one seed   *)
(* and driven through one script of calls, each at its own pace.           *)

Instances == {1, 2}

RngOps ==
    { [op |-> "next"],
      [op |-> "range", min |-> 40, max |-> 120],
      [op |-> "range", min |-> -3, max |-> 3],
      [op |-> "int", min |-> 1, max |-> 4],
      [op |-> "choice", array |-> ROOT_NOTES],
      [op |-> "shuffle", array |-> <<"a", "b", "c", "d">>],
      [op |-> "weightedChoice", items |-> FunctionTypes, weights |-> FunctionWeights] }

\* one call on a register: [rng |-> register after, val |-> value returned]
RngCall(s, c) ==
    CASE c.op = "next" -> next(s)
      [] c.op = "range" -> range(s, c.min, c.max)
      [] c.op = "int" -> int(s, c.min, c.max)
      [] c.op = "choice" -> choice(s, c.array)
      [] c.op = "shuffle" -> shuffle(s, c.array)
      [] c.op = "weightedChoice" -> weightedChoice(s, c.items, c.weights)

\* a static register: a call on one instance moves every instance
RngApplyShared(store, i, c) ==
    With(RngCall(store[i], c), LAMBDA r : [j \in DOMAIN store |-> r.rng])

\* the effect of a call on the instances: `private seed` is a field of the
\* instance, so a call on instance i writes this.seed of instance i only
RngApply(store, i, c) ==
    [store EXCEPT ![i] = RngCall(store[i], c).rng]

RngInit ==
    /\ \E seed \in Seeds : rngStore = [i \in Instances |-> SeededRandom(seed)]
    /\ rngScript = <<>>
    /\ rngHist = [i \in Instances |-> <<>>]

\* the driver decides the next call of the script
RngIssue(c) ==
    /\ Len(rngScript) < MaxCalls
    /\ rngScript' = Append(rngScript, c)
    /\ UNCHANGED <<rngStore, rngHist>>

\* instance i runs the next call of the script it has not run yet
RngRun(i) ==
    /\ Len(rngHist[i]) < Len(rngScript)
    /\ \E c \in {rngScript[Len(rngHist[i]) + 1]} :
       \E out \in {RngCall(rngStore[i], c).val}, store1 \in {RngApply(rngStore, i, c)} :
           /\ rngStore' = store1
           /\ rngHist' = [rngHist EXCEPT ![i] = Append(@, [out |-> out, state |-> store1[i]])]
    /\ UNCHANGED rngScript

RngNext ==
    \/ \E c \in RngOps : RngIssue(c)
    \/ \E i \in Instances : RngRun(i)

SpecRngInit == RngInit /\ MapIdle /\ AudioIdle /\ ClockIdle /\ VisualIdle /\ SessionIdle

SpecRngNext == RngNext /\ UNCHANGED <<mapVars, audioVars, now, visualVars, sessionVars>>

SpecRng == SpecRngInit /\ [][SpecRngNext]_vars

\* C1: two SeededRandom instances built from the same seed and driven through
\* the same sequence of calls return the same value at every step and hold
\* the same register after every step.
C1_SameSeedSameStream ==
    \A k \in 1..Min(Len(rngHist[1]), Len(rngHist[2])) :
        /\ rngHist[1][k].out = rngHist[2][k].out
        /\ rngHist[1][k].state = rngHist[2][k].state

\* both instances have run a full script that shuffles and draws by weight
C1_Witness ==
    /\ Len(rngScript) = MaxCalls
    /\ Len(rngHist[1]) = MaxCalls
    /\ Len(rngHist[2]) = MaxCalls
    /\ \E k \in 1..MaxCalls : rngScript[k].op = "shuffle"
    /\ \E k \in 1..MaxCalls : rngScript[k].op = "weightedChoice"
    /\ rngStore[1] # SeededRandom(42)

----------------------------------------------------------------------------
(* SpecWeighted: weightedChoice calls on one generator, from registers     *)
(* whose next draw falls on, just above and between the cumulative weights *)

\* registers whose next draw is 0, 1/4, 1/4 + 2^-32, 1/2, 3/4 and
\* 1 - 2^-32, and the registers of the seeds
PickRegisters ==
    { [hi |-> 9686, lo |-> 4069], [hi |-> 26070, lo |-> 4069],
      [hi |-> 25782, lo |-> 26794], [hi |-> 42454, lo |-> 4069],
      [hi |-> 58838, lo |-> 4069], [hi |-> 9973, lo |-> 46880] }
    \cup { SeededRandom(seed) : seed \in Seeds }

\* the lists and weights of the mapper, a list whose cumulative weights
\* the draws above reach exactly, a single item, and a zero weight
PickLists ==
    { [items |-> FunctionTypes, weights |-> FunctionWeights],
      [items |-> <<"a", "b", "c">>, weights |-> <<1, 1, 2>>],
      [items |-> <<"only">>, weights |-> <<3>>],
      [items |-> <<"never", "often">>, weights |-> <<0, 4>>] }

WeightedInit ==
    /\ \E s \in PickRegisters : rngStore = << s >>
    /\ rngScript = <<>>
    /\ rngHist = <<>>

WeightedCall(c) ==
    /\ Len(rngHist) < MaxCalls
    /\ rngStore' = << weightedChoice(rngStore[1], c.items, c.weights).rng >>
    /\ rngHist' = Append(rngHist,
           [ before |-> rngStore[1], items |-> c.items, weights |-> c.weights,
             out |-> weightedChoice(rngStore[1], c.items, c.weights).val,
             after |-> weightedChoice(rngStore[1], c.items, c.weights).rng ])
    /\ UNCHANGED rngScript

WeightedNext == \E c \in PickLists : WeightedCall(c)

SpecWeightedInit ==
    WeightedInit /\ MapIdle /\ AudioIdle /\ ClockIdle /\ VisualIdle /\ SessionIdle
SpecWeightedNext ==
    WeightedNext /\ UNCHANGED <<mapVars, audioVars, now, visualVars, sessionVars>>
SpecWeighted == SpecWeightedInit /\ [][SpecWeightedNext]_vars

\* the draw of a call: the next value of the register before it, scaled to
\* the total weight
DrawOf(call) == Scale(Lcg(call.before), SumSeq(call.weights))

\* w0 + ... + wi >= d, for the 1-based index i
Covers(call, i) ==
    \/ DrawOf(call).int < SumSeq(SubSeq(call.weights, 1, i))
    \/ /\ DrawOf(call).int = SumSeq(SubSeq(call.weights, 1, i))
       /\ DrawOf(call).frac.hi = 0
       /\ DrawOf(call).frac.lo = 0

\* C36: weightedChoice consumes exactly one generator draw d scaled to
\* [0, total weight) and returns the item at the least index i whose
\* cumulative weight w0 + ... + wi is >= d, falling back to the last item
\* if no index qualifies; with positive weights it never returns an index
\* outside the list.
C36_LeastIndexCoveringTheDraw ==
    \A k \in DOMAIN rngHist :
        LET call == rngHist[k]
            covering == { i \in DOMAIN call.items : Covers(call, i) }
        IN  /\ call.after = Lcg(call.before)
            /\ DrawOf(call).int \in 0..(SumSeq(call.weights) - 1)
            /\ covering # {} =>
                   \E i \in covering :
                       /\ \A j \in covering : i <= j
                       /\ call.out = call.items[i]
            /\ covering = {} => call.out = call.items[Len(call.items)]
            /\ (\A i \in DOMAIN call.weights : call.weights[i] > 0) =>
                   \E i \in DOMAIN call.items : call.out = call.items[i]

\* a draw that is exactly the first cumulative weight has chosen the first
\* item, and the mapper's list was drawn from after it
C36_Witness ==
    /\ Len(rngHist) = MaxCalls
    /\ rngHist[1].weights = <<1, 1, 2>>
    /\ DrawOf(rngHist[1]) = [int |-> 1, frac |-> [hi |-> 0, lo |-> 0]]
    /\ rngHist[1].out = "a"
    /\ rngHist[2].items = FunctionTypes
    /\ rngHist[2].out \notin {FunctionTypes[1], FunctionTypes[Len(FunctionTypes)]}

----------------------------------------------------------------------------
(* core/KeyboardMapper.ts                                                  *)

Range(f) == { f[x] : x \in DOMAIN f }

\* 'abcdefghijklmnopqrstuvwxyz0123456789'.split('')
allKeys ==
    << "a", "b", "c", "d", "e", "f", "g", "h", "i", "j", "k", "l", "m",
       "n", "o", "p", "q", "r", "s", "t", "u", "v", "w", "x", "y", "z",
       "0", "1", "2", "3", "4", "5", "6", "7", "8", "9" >>

controlKeys == << "q", "w", "e", "a", "s", "d" >>

\* allKeys.filter(k => !controlKeys.includes(k))
randomKeys == SelectSeq(allKeys, LAMBDA k : k \notin Range(controlKeys))

visualOptions ==
    << "animation-bounce", "animation-move", "animation-explode",
       "shape-permanent", "symbol-spawn", "animal-spawn" >>

SynthModes == << "bass", "melody", "percussion", "chaos", "mixed" >>

\* func.includes(sub) on the sixteen function types: the types whose name
\* contains the substring
Containing ==
    [ synth |-> {"synth-note"},
      percussion |-> {"percussion"},
      shape |-> {"shape-permanent"},
      animation |-> {"animation-bounce", "animation-move", "animation-explode"},
      symbol |-> {"symbol-spawn"},
      word |-> {"word-spawn"},
      animal |-> {"animal-spawn"},
      number |-> {"number-spawn"},
      backgroundColor |-> {"background-color"} ]

includes(func, sub) == func \in Containing[sub]

\* a new Map() and map.set(k, v)
EmptyMap == [k \in {} |-> NoObject]
SetKey(map, k, v) == [x \in DOMAIN map \cup {k} |-> IF x = k THEN v ELSE map[x]]

\* the params object {}: a key never assigned reads undefined
NoParams == [synthMode |-> Undefined, shapeType |-> Undefined, elementType |-> Undefined]

\* generateParams(functions): the forEach from index i on
RECURSIVE ParamsFrom(_, _, _, _)
ParamsFrom(s, functions, i, params) ==
    IF i > Len(functions) THEN [rng |-> s, val |-> params]
    ELSE LET func == functions[i]
             Shape(p) == IF includes(func, "shape") \/ includes(func, "animation")
                         THEN [p EXCEPT !.shapeType = "shape"] ELSE p
             Symbol(p) == IF includes(func, "symbol") THEN [p EXCEPT !.elementType = "symbol"] ELSE p
             Word(p) == IF includes(func, "word") THEN [p EXCEPT !.elementType = "word"] ELSE p
             Animal(p) == IF includes(func, "animal") THEN [p EXCEPT !.elementType = "animal"] ELSE p
             Number(p) == IF includes(func, "number") THEN [p EXCEPT !.elementType = "number"] ELSE p
             Rest(s1, p) == ParamsFrom(s1, functions, i + 1, Number(Animal(Word(Symbol(Shape(p))))))
         IN  IF includes(func, "synth") \/ includes(func, "percussion")
             THEN With(choice(s, SynthModes), LAMBDA mode :
                      Rest(mode.rng, [params EXCEPT !.synthMode = mode.val]))
             ELSE Rest(s, params)

generateParams(s, functions) == ParamsFrom(s, functions, 1, NoParams)

\* the loop with a pick that is already chosen drawn again until it is new
RECURSIVE PickFunctionsRedrawing(_, _, _)
PickFunctionsRedrawing(s, functions, n) ==
    IF n = 0 THEN [rng |-> s, val |-> functions]
    ELSE With(weightedChoice(s, FunctionTypes, FunctionWeights), LAMBDA func :
             IF func.val \in Range(functions)
             THEN PickFunctionsRedrawing(func.rng, functions, n)
             ELSE PickFunctionsRedrawing(func.rng, Append(functions, func.val), n - 1))

\* the loop "for (let i = 0; i < numFunctions; i++)" with n iterations left
RECURSIVE PickFunctions(_, _, _)
PickFunctions(s, functions, n) ==
    IF n = 0 THEN [rng |-> s, val |-> functions]
    ELSE With(weightedChoice(s, FunctionTypes, FunctionWeights), LAMBDA func :
             PickFunctions(func.rng,
                           IF func.val \in Range(functions) THEN functions
                           ELSE Append(functions, func.val),
                           n - 1))

\* the body of randomKeys.forEach for one key; m is [rng, mappings]
AssignRandomKey(m, key) ==
    With(int(m.rng, 1, 2), LAMBDA numFunctions :
    With(PickFunctions(numFunctions.rng, <<>>, numFunctions.val), LAMBDA functions :
    With(generateParams(functions.rng, functions.val), LAMBDA params :
        [rng |-> params.rng,
         mappings |-> SetKey(m.mappings, key,
             [key |-> key, functions |-> functions.val, params |-> params.val])])))

\* randomKeys.forEach from index i on
RECURSIVE AssignRandomKeys(_, _)
AssignRandomKeys(m, i) ==
    IF i > Len(randomKeys) THEN m
    ELSE With(AssignRandomKey(m, randomKeys[i]), LAMBDA m1 : AssignRandomKeys(m1, i + 1))

\* a control key given a tag by the weighted pick of the other keys
AssignControlKeyAnyTag(m, key) ==
    With(weightedChoice(m.rng, FunctionTypes, FunctionWeights), LAMBDA picked :
    With(generateParams(picked.rng, << picked.val >>), LAMBDA params :
        [rng |-> params.rng,
         mappings |-> SetKey(m.mappings, key,
             [key |-> key, functions |-> << picked.val >>, params |-> params.val])]))

\* the body of controlKeys.forEach for one key
AssignControlKey(m, key) ==
    With(choice(m.rng, visualOptions), LAMBDA visualFunction :
    With(generateParams(visualFunction.rng, << visualFunction.val >>), LAMBDA params :
        [rng |-> params.rng,
         mappings |-> SetKey(m.mappings, key,
             [key |-> key, functions |-> << visualFunction.val >>, params |-> params.val])]))

\* the control keys are left out of the table
AssignNoControlKeys(m, i) == m

\* controlKeys.forEach from index i on
RECURSIVE AssignControlKeys(_, _)
AssignControlKeys(m, i) ==
    IF i > Len(controlKeys) THEN m
    ELSE With(AssignControlKey(m, controlKeys[i]), LAMBDA m1 : AssignControlKeys(m1, i + 1))

\* the surprise key is drawn from the control keys
generateMappingsSurpriseOnControl(s) ==
    With(choice(s, controlKeys), LAMBDA surprise :
    With(AssignRandomKeys([rng |-> surprise.rng, mappings |-> EmptyMap], 1), LAMBDA random :
    With(AssignControlKeys(random, 1), LAMBDA control :
        [rng |-> control.rng, surpriseKey |-> surprise.val, mappings |-> control.mappings])))

\* generateMappings() on a mapper whose generator is s: the mapper after it
generateMappings(s) ==
    With(choice(s, randomKeys), LAMBDA surprise :
    With(AssignRandomKeys([rng |-> surprise.rng, mappings |-> EmptyMap], 1), LAMBDA random :
    With(AssignControlKeys(random, 1), LAMBDA control :
        [rng |-> control.rng, surpriseKey |-> surprise.val, mappings |-> control.mappings])))

\* key.toLowerCase() on the key names fed to the mapper
UpperLetters ==
    << "A", "B", "C", "D", "E", "F", "G", "H", "I", "J", "K", "L", "M",
       "N", "O", "P", "Q", "R", "S", "T", "U", "V", "W", "X", "Y", "Z" >>

toLowerCase(key) ==
    IF \E i \in 1..Len(UpperLetters) : UpperLetters[i] = key
    THEN allKeys[CHOOSE i \in 1..Len(UpperLetters) : UpperLetters[i] = key]
    ELSE IF key = "Escape" THEN "escape" ELSE key

\* getMapping(key): this.mappings.get(key.toLowerCase()) || null
getMapping(mapper, key) ==
    IF toLowerCase(key) \in DOMAIN mapper.mappings
    THEN mapper.mappings[toLowerCase(key)] ELSE NoObject

\* isSurpriseKey(key)
isSurpriseKey(mapper, key) == toLowerCase(key) = mapper.surpriseKey

----------------------------------------------------------------------------
(* Specification SpecMapper: two KeyboardMapper instances built from one   *)
(* seed, one after the other, and asked about keys.                        *)

\* the generator of the mapper is module state seeded once: the second
\* mapper built continues the stream the first one left
NewKeyboardMapperSharedRng(store, i, seed) ==
    [store EXCEPT ![i] =
        IF \E j \in DOMAIN store : store[j] # NoObject
        THEN generateMappings(store[CHOOSE j \in DOMAIN store : store[j] # NoObject].rng)
        ELSE generateMappings(SeededRandom(seed))]

\* new KeyboardMapper(seed), stored as instance i: the constructor makes its
\* own SeededRandom(seed) and runs generateMappings on it
NewKeyboardMapper(store, i, seed) ==
    [store EXCEPT ![i] = generateMappings(SeededRandom(seed))]

\* keys the mapper is asked about: the alphabet, and some keys outside it
AskedKeys == Range(allKeys) \cup {"A", "Z", "Escape", "Tab", "-"}

MapInit ==
    /\ mapSeed \in Seeds
    /\ mapStore = [i \in Instances |-> NoObject]
    /\ mapAnswer = NoObject


MapConstruct(i) ==
    /\ mapStore[i] = NoObject
    /\ mapStore' = NewKeyboardMapper(mapStore, i, mapSeed)
    /\ UNCHANGED <<mapSeed, mapAnswer>>

MapGetMapping(i, key) ==
    /\ mapStore[i] # NoObject
    /\ mapAnswer' = [instance |-> i, op |-> "getMapping", key |-> key,
                     result |-> getMapping(mapStore[i], key)]
    /\ UNCHANGED <<mapSeed, mapStore>>

MapIsSurpriseKey(i, key) ==
    /\ mapStore[i] # NoObject
    /\ mapAnswer' = [instance |-> i, op |-> "isSurpriseKey", key |-> key,
                     result |-> isSurpriseKey(mapStore[i], key)]
    /\ UNCHANGED <<mapSeed, mapStore>>

MapNext ==
    \/ \E i \in Instances : MapConstruct(i)
    \/ \E i \in Instances, key \in AskedKeys : MapGetMapping(i, key)
    \/ \E i \in Instances, key \in AskedKeys : MapIsSurpriseKey(i, key)

SpecMapperInit == MapInit /\ RngIdle /\ AudioIdle /\ ClockIdle /\ VisualIdle /\ SessionIdle

SpecMapperNext == MapNext /\ UNCHANGED <<rngVars, audioVars, now, visualVars, sessionVars>>

SpecMapper == SpecMapperInit /\ [][SpecMapperNext]_vars

\* C3: two KeyboardMapper instances constructed independently from the same
\* seed have the same surprise key and, for every key of the alphabet, the
\* same ordered function list and the same parameters.
C3_SameSeedSameMappings ==
    (mapStore[1] # NoObject /\ mapStore[2] # NoObject) =>
        /\ mapStore[1].surpriseKey = mapStore[2].surpriseKey
        /\ \A k \in 1..Len(allKeys) :
             LET m1 == getMapping(mapStore[1], allKeys[k])
                 m2 == getMapping(mapStore[2], allKeys[k])
             IN  /\ m1 # NoObject
                 /\ m2 # NoObject
                 /\ m1.functions = m2.functions
                 /\ m1.params = m2.params

\* both mappers are built, and the table is not a trivial one: some key
\* has two functions and some key a synth mode
C3_Witness ==
    /\ mapStore[1] # NoObject
    /\ mapStore[2] # NoObject
    /\ \E k \in DOMAIN mapStore[1].mappings : Len(mapStore[1].mappings[k].functions) = 2
    /\ \E k \in DOMAIN mapStore[2].mappings : mapStore[2].mappings[k].params.synthMode # Undefined

\* the mappers that have been built
Built == { i \in Instances : mapStore[i] # NoObject }

\* symbols outside the alphabet
OtherSymbols == { "Escape", "Tab", "-", " ", "F5", "Enter", "aa", "" }

StatedTags(s) ==
    With(int(s, 1, 2), LAMBDA count :
    With(weightedChoice(count.rng, FunctionTypes, FunctionWeights), LAMBDA first :
    With(weightedChoice(first.rng, FunctionTypes, FunctionWeights), LAMBDA second :
        IF count.val = 1
        THEN [count |-> 1, rng |-> first.rng, tags |-> << first.val >>]
        ELSE [count |-> 2, rng |-> second.rng,
              tags |-> IF second.val = first.val THEN << first.val >>
                       ELSE << first.val, second.val >>])))

\* one symbol, from the generator state s: whether its tags are the stated
\* ones, and the generator state after its parameters
StatedKey(s, functions) ==
    With(StatedTags(s), LAMBDA stated :
        [ same |-> functions = stated.tags,
          rng |-> generateParams(stated.rng, stated.tags).rng ])

\* the generator state before random key k, when the keys from i on start
\* in state s
RECURSIVE StatedFrom(_, _, _)
StatedFrom(s, i, k) ==
    IF i = k THEN s
    ELSE With(StatedKey(s, <<>>), LAMBDA stated : StatedFrom(stated.rng, i + 1, k))

\* the generator state before random key k, when the table is made from s
StatedBefore(s, k) == StatedFrom(choice(s, randomKeys).rng, 1, k)

\* the tags of the random keys from i on are the stated ones, the keys
\* starting in generator state s
RECURSIVE TagsAsStated(_, _, _)
TagsAsStated(s, i, mappings) ==
    IF i > Len(randomKeys) THEN TRUE
    ELSE With(StatedKey(s, mappings[randomKeys[i]].functions), LAMBDA stated :
             stated.same /\ TagsAsStated(stated.rng, i + 1, mappings))

\* C19: for every seed, the entry of every non-control symbol holds 1 or 2
\* tags, no tag twice, and they are the tags of a count drawn in [1,2]
\* followed by exactly that many weighted picks, a pick equal to a tag
\* already chosen being dropped without another draw.
C19_OneOrTwoTagsNoRepeat ==
    \A i \in Built :
        /\ \A k \in DOMAIN randomKeys :
               /\ Len(mapStore[i].mappings[randomKeys[k]].functions) \in {1, 2}
               /\ \A a, b \in DOMAIN mapStore[i].mappings[randomKeys[k]].functions :
                      a # b => mapStore[i].mappings[randomKeys[k]].functions[a]
                               # mapStore[i].mappings[randomKeys[k]].functions[b]
        /\ TagsAsStated(StatedBefore(SeededRandom(mapSeed), 1), 1, mapStore[i].mappings)

\* a mapper is built, and for some symbol the count was 2 and the second
\* pick repeated the first: the symbol has one tag
C19_Witness ==
    /\ Built # {}
    /\ \E k \in DOMAIN randomKeys :
           /\ StatedTags(StatedBefore(SeededRandom(mapSeed), k)).count = 2
           /\ \A i \in Built : Len(mapStore[i].mappings[randomKeys[k]].functions) = 1

AudioTags == { "synth-note", "percussion", "sound-effect", "beat-pattern" }

\* C20: for every seed, each control symbol (q, w, e, a, s, d) has exactly
\* one tag, one of animation-bounce, animation-move, animation-explode,
\* shape-permanent, symbol-spawn and animal-spawn, and so no audio tag
\* (synth-note, percussion, sound-effect, beat-pattern).
C20_ControlKeysVisualOnly ==
    \A i \in Built :
        \A k \in DOMAIN controlKeys :
            /\ Len(mapStore[i].mappings[controlKeys[k]].functions) = 1
            /\ mapStore[i].mappings[controlKeys[k]].functions[1] \in Range(visualOptions)
            /\ mapStore[i].mappings[controlKeys[k]].functions[1] \notin AudioTags
            /\ mapStore[i].mappings[controlKeys[k]].params.synthMode = Undefined

\* both mappers are built and the control symbols do not all have the
\* same tag
C20_Witness ==
    /\ Built = Instances
    /\ \E j, k \in DOMAIN controlKeys :
           mapStore[1].mappings[controlKeys[j]].functions
               # mapStore[1].mappings[controlKeys[k]].functions

\* the symbols of the alphabet a mapper calls its surprise key
SurpriseSymbols(mapper) == { key \in Range(allKeys) : isSurpriseKey(mapper, key) }

\* C21: for every seed, isSurpriseKey is true for exactly one of the 36
\* symbols of the alphabet, and that symbol is none of the control symbols
\* q, w, e, a, s, d.
C21_OneSurpriseSymbolNotControl ==
    \A i \in Built :
        /\ Cardinality(SurpriseSymbols(mapStore[i])) = 1
        /\ SurpriseSymbols(mapStore[i]) \cap Range(controlKeys) = {}
        /\ mapAnswer # NoObject /\ mapAnswer.op = "isSurpriseKey" /\ mapAnswer.instance = i
             /\ mapAnswer.key \in Range(controlKeys) => mapAnswer.result = FALSE

\* a mapper has said yes to a symbol, and no to a control symbol
C21_Witness ==
    /\ mapAnswer # NoObject
    /\ mapAnswer.op = "isSurpriseKey"
    /\ mapAnswer.result = TRUE
    /\ mapAnswer.key \in Range(randomKeys)
    /\ \A key \in Range(controlKeys) : ~isSurpriseKey(mapStore[mapAnswer.instance], key)

----------------------------------------------------------------------------
(* Rationals: layer.tempo is a double in the source, and the multipliers    *)
(* of the callers are 1.1 and 0.9.  The model keeps a tempo as an exact     *)
(* fraction [n, d] in lowest terms with d > 0.  Math.max and Math.min       *)
(* return one of their arguments, so the clamp of the source and the clamp  *)
(* of the model bound the stored value in the same way.                     *)

Abs(x) == IF x < 0 THEN 0 - x ELSE x

RECURSIVE Gcd(_, _)
Gcd(a, b) == IF b = 0 THEN a ELSE Gcd(b, a % b)

Rat(n, d) == LET g == Gcd(Abs(n), d) IN [n |-> n \div g, d |-> d \div g]
RatMul(a, b) == Rat(a.n * b.n, a.d * b.d)
RatLess(a, b) == a.n * b.d < b.n * a.d
RatLeq(a, b) == a.n * b.d <= b.n * a.d
RatMax(a, b) == IF RatLess(a, b) THEN b ELSE a
RatMin(a, b) == IF RatLess(b, a) THEN b ELSE a

----------------------------------------------------------------------------
(* The Tone.js backend, as far as the engine drives it: the Tone.Sequence   *)
(* objects it has created, the Transport, the detune of the five synths    *)
(* and the timers it has set with setTimeout.                              *)

\* Tone.Time(duration).toMilliseconds() at the Transport's 120 BPM, which
\* the engine never changes
toMilliseconds(duration) ==
    CASE duration = "16n" -> 125
      [] duration = "8n" -> 250
      [] duration = "4n" -> 500
      [] duration = "2n" -> 1000

\* Tone.Frequency(note).toMidi() on the root notes
toMidi(note) ==
    CASE note = "C3" -> 48
      [] note = "D3" -> 50
      [] note = "E3" -> 52
      [] note = "F3" -> 53
      [] note = "G3" -> 55
      [] note = "A3" -> 57

PitchClasses == << "C", "C#", "D", "D#", "E", "F", "F#", "G", "G#", "A", "A#", "B" >>

\* Tone.Frequency(midi, 'midi').toNote()
toNote(midi) == PitchClasses[(midi % 12) + 1] \o ToString((midi \div 12) - 1)

\* Tone.Frequency(note).toMidi() on any note name: the number toNote names
Frequency(note) == CHOOSE midi \in 0..127 : toNote(midi) = note

NewTone ==
    [ sequences |-> <<>>,
      transport |-> "stopped",
      detune |-> [bassSynth |-> Undefined, melodySynth |-> Undefined, chaosSynth |-> Undefined],
      effects |-> <<>>,
      synthsDisposed |-> FALSE,
      timers |-> <<>> ]

\* new Tone.Sequence(callback, notes, duration): the callback closes over
\* the layer object, the synth and the duration
NewSequence(layerId, synth, notes, duration) ==
    [ layer |-> layerId, synth |-> synth, notes |-> notes, subdivision |-> duration,
      playbackRate |-> Rat(1, 1), state |-> "stopped", disposed |-> FALSE ]

\* sequence.stop(); sequence.dispose()
StopAndDispose(tn, id) ==
    [tn EXCEPT !.sequences[id].state = "stopped", !.sequences[id].disposed = TRUE]

\* a sequence that sounds: started and not disposed
Live(sequence) == sequence.state = "started" /\ ~sequence.disposed

----------------------------------------------------------------------------
(* core/AudioEngine.ts: LoopLayerManager                                   *)
(* An operation takes the manager lm (and the backend tn when it drives    *)
(* it) and returns the manager and backend after it, the value returned    *)
(* and the backend calls made, in order.  A reference to a Tone.Sequence   *)
(* is its index in tn.sequences, and 0 is null.                            *)

LayerIds == 1..4

\* constructor(seed)
NewLoopLayerManager(seed) ==
    [ layers |-> [i \in LayerIds |->
          [ id |-> i, loop |-> NoObject, sequence |-> 0, playing |-> FALSE,
            pitch |-> 0, tempo |-> Rat(1, 1), pattern |-> <<>> ]],
      selectedLayer |-> 1,
      rng |-> SeededRandom(seed),
      initialized |-> FALSE ]

\* the selection moves on without wrapping
cycleLayerPastFour(lm) == [lm EXCEPT !.selectedLayer = lm.selectedLayer + 1]

\* cycleLayer()
cycleLayer(lm) == [lm EXCEPT !.selectedLayer = (lm.selectedLayer % 4) + 1]

\* every layer is overwritten with the new pattern
addLoopToEveryLayer(lm, tn, synth, notes, duration) ==
    With(int(lm.rng, 1, 4), LAMBDA layerNum :
        [ lm |-> [lm EXCEPT !.rng = layerNum.rng,
                            !.layers = [j \in LayerIds |->
                                [lm.layers[j] EXCEPT !.sequence = Len(tn.sequences) + 1,
                                                     !.pattern = notes, !.playing = TRUE]]],
          tone |-> [tn EXCEPT !.sequences = Append(@,
                                  [NewSequence(layerNum.val, synth, notes, duration)
                                      EXCEPT !.playbackRate = lm.layers[layerNum.val].tempo,
                                             !.state = "started"]),
                              !.transport = "started"],
          ret |-> layerNum.val,
          calls |-> << [call |-> "sequence.start", id |-> Len(tn.sequences) + 1] >> ])

\* the previous sequence of the layer is left running
addLoopKeepingOld(lm, tn, synth, notes, duration) ==
    With(int(lm.rng, 1, 4), LAMBDA layerNum :
        [ lm |-> [lm EXCEPT !.rng = layerNum.rng,
                            !.layers[layerNum.val] =
                                [@ EXCEPT !.sequence = Len(tn.sequences) + 1,
                                          !.pattern = notes, !.playing = TRUE]],
          tone |-> [tn EXCEPT !.sequences = Append(@,
                                  [NewSequence(layerNum.val, synth, notes, duration)
                                      EXCEPT !.playbackRate = lm.layers[layerNum.val].tempo,
                                             !.state = "started"]),
                              !.transport = "started"],
          ret |-> layerNum.val,
          calls |-> << [call |-> "sequence.start", id |-> Len(tn.sequences) + 1] >> ])

\* the loop goes to the selected layer, and no layer is drawn
addLoopToSelectedLayer(lm, tn, synth, notes, duration) ==
    With(lm.layers[lm.selectedLayer], LAMBDA layer :
    With(IF layer.sequence # 0 THEN StopAndDispose(tn, layer.sequence) ELSE tn, LAMBDA tn1 :
        [ lm |-> [lm EXCEPT !.layers[lm.selectedLayer] =
                                [layer EXCEPT !.sequence = Len(tn1.sequences) + 1,
                                              !.pattern = notes, !.playing = TRUE]],
          tone |-> [tn1 EXCEPT !.sequences = Append(@,
                                   [NewSequence(lm.selectedLayer, synth, notes, duration)
                                       EXCEPT !.playbackRate = layer.tempo,
                                              !.state = "started"]),
                               !.transport = "started"],
          ret |-> lm.selectedLayer,
          calls |-> << [call |-> "sequence.start", id |-> Len(tn1.sequences) + 1] >> ]))

\* the new sequence is started at the rate it is created with
addLoopAtUnitTempo(lm, tn, synth, notes, duration) ==
    With(int(lm.rng, 1, 4), LAMBDA layerNum :
    With(lm.layers[layerNum.val], LAMBDA layer :
    With(IF layer.sequence # 0 THEN StopAndDispose(tn, layer.sequence) ELSE tn, LAMBDA tn1 :
    With(Len(tn1.sequences) + 1, LAMBDA id :
        [ lm |-> [lm EXCEPT !.rng = layerNum.rng,
                            !.layers[layerNum.val] =
                                [layer EXCEPT !.sequence = id, !.pattern = notes,
                                              !.playing = TRUE]],
          tone |-> [tn1 EXCEPT !.sequences = Append(@,
                                   [NewSequence(layerNum.val, synth, notes, duration)
                                       EXCEPT !.state = "started"]),
                               !.transport = "started"],
          ret |-> layerNum.val,
          calls |-> (IF layer.sequence # 0
                     THEN << [call |-> "sequence.stop", id |-> layer.sequence],
                             [call |-> "sequence.dispose", id |-> layer.sequence] >>
                     ELSE <<>>)
                    \o << [call |-> "sequence.start", id |-> id],
                          [call |-> "Transport.start"] >> ]))))

\* addLoopToRandomLayer(synth, notes, duration); layer.loop is never set,
\* so only the sequence of the layer is stopped and disposed
addLoopToRandomLayer(lm, tn, synth, notes, duration) ==
    With(int(lm.rng, 1, 4), LAMBDA layerNum :
    With(lm.layers[layerNum.val], LAMBDA layer :
    With(IF layer.sequence # 0 THEN StopAndDispose(tn, layer.sequence) ELSE tn, LAMBDA tn1 :
    With(Len(tn1.sequences) + 1, LAMBDA id :
        [ lm |-> [lm EXCEPT !.rng = layerNum.rng,
                            !.layers[layerNum.val] =
                                [layer EXCEPT !.sequence = id, !.pattern = notes,
                                              !.playing = TRUE]],
          tone |-> [tn1 EXCEPT !.sequences = Append(@,
                                   [NewSequence(layerNum.val, synth, notes, duration)
                                       EXCEPT !.playbackRate = layer.tempo,
                                              !.state = "started"]),
                               !.transport = "started"],
          ret |-> layerNum.val,
          calls |-> (IF layer.sequence # 0
                     THEN << [call |-> "sequence.stop", id |-> layer.sequence],
                             [call |-> "sequence.dispose", id |-> layer.sequence] >>
                     ELSE <<>>)
                    \o << [call |-> "sequence.start", id |-> id],
                          [call |-> "Transport.start"] >> ]))))

\* the callback with the pattern note as it is written
sequenceCallbackUntransposed(lm, sequence, note) ==
    IF note # Undefined /\ note # "" /\ lm.layers[sequence.layer].playing
    THEN << [ call |-> "triggerAttackRelease", synth |-> sequence.synth, note |-> note,
              duration |-> sequence.subdivision, velocity |-> Rat(7, 10) ] >>
    ELSE <<>>

\* the callback addLoopToRandomLayer gives to Tone.Sequence, called with a
\* note of the pattern: it reads the layer object when it is called.  The
\* result is the backend calls made.
sequenceCallback(lm, sequence, note) ==
    IF note # Undefined /\ note # "" /\ lm.layers[sequence.layer].playing
    THEN << [ call |-> "triggerAttackRelease", synth |-> sequence.synth,
              note |-> toNote(Frequency(note) + lm.layers[sequence.layer].pitch),
              duration |-> sequence.subdivision, velocity |-> Rat(7, 10) ] >>
    ELSE <<>>

\* the selected layer is paused whatever its flag was
pauseOnly(lm, tn) ==
    LET layer == lm.layers[lm.selectedLayer]
    IN  IF layer.sequence = 0
        THEN [lm |-> lm, tone |-> tn, ret |-> Undefined, calls |-> <<>>]
        ELSE [ lm |-> [lm EXCEPT !.layers[lm.selectedLayer].playing = FALSE],
               tone |-> [tn EXCEPT !.sequences[layer.sequence].state = "stopped"],
               ret |-> Undefined,
               calls |-> << [call |-> "sequence.stop", id |-> layer.sequence] >> ]

\* togglePlayPause()
togglePlayPause(lm, tn) ==
    LET layer == lm.layers[lm.selectedLayer]
        playing == ~layer.playing
    IN  IF layer.sequence = 0
        THEN [lm |-> lm, tone |-> tn, ret |-> Undefined, calls |-> <<>>]
        ELSE [ lm |-> [lm EXCEPT !.layers[lm.selectedLayer].playing = playing],
               tone |-> [tn EXCEPT !.sequences[layer.sequence].state =
                                       IF playing THEN "started" ELSE "stopped"],
               ret |-> Undefined,
               calls |-> << [call |-> IF playing THEN "sequence.start" ELSE "sequence.stop",
                             id |-> layer.sequence] >> ]

\* the offset is added and stored as it is
adjustPitchUnclamped(lm, semitones) ==
    LET layer == lm.layers[lm.selectedLayer]
    IN  IF layer.sequence = 0 THEN lm
        ELSE [lm EXCEPT !.layers[lm.selectedLayer].pitch = layer.pitch + semitones]

\* the layer is not asked for its sequence
adjustPitchOfEmptyLayer(lm, semitones) ==
    [lm EXCEPT !.layers[lm.selectedLayer].pitch =
                   Max(-12, Min(12, lm.layers[lm.selectedLayer].pitch + semitones))]

\* adjustPitch(semitones), an integer number of semitones
adjustPitch(lm, semitones) ==
    LET layer == lm.layers[lm.selectedLayer]
    IN  IF layer.sequence = 0 THEN lm
        ELSE [lm EXCEPT !.layers[lm.selectedLayer].pitch =
                            Max(-12, Min(12, layer.pitch + semitones))]

\* adjustTempo(multiplier), the multiplier a fraction
adjustTempo(lm, tn, multiplier) ==
    LET layer == lm.layers[lm.selectedLayer]
        tempo == RatMax(Rat(1, 4), RatMin(Rat(4, 1), RatMul(layer.tempo, multiplier)))
    IN  IF layer.sequence = 0
        THEN [lm |-> lm, tone |-> tn, ret |-> Undefined, calls |-> <<>>]
        ELSE [ lm |-> [lm EXCEPT !.layers[lm.selectedLayer].tempo = tempo],
               tone |-> [tn EXCEPT !.sequences[layer.sequence].playbackRate = tempo],
               ret |-> Undefined,
               calls |-> <<>> ]

----------------------------------------------------------------------------
(* core/AudioEngine.ts: AudioEngine                                        *)
(* An operation takes the engine ae and the backend tn and returns both    *)
(* after it, with the value returned and the backend calls made.           *)

MAX_POLYPHONY == 8

pentatonic == << 0, 2, 4, 7, 9 >>

\* generateScaleNotes(): two octaves of the pentatonic scale on a root
generateScaleNotes(s) ==
    With(choice(s, ROOT_NOTES), LAMBDA root :
        [ rng |-> root.rng,
          val |-> [k \in 1..(2 * Len(pentatonic)) |->
                      toNote(toMidi(root.val) + pentatonic[((k - 1) % Len(pentatonic)) + 1]
                             + ((k - 1) \div Len(pentatonic)) * 12)] ])

\* constructor(seed)
NewAudioEngine(seed) ==
    With(generateScaleNotes(SeededRandom(seed)), LAMBDA scale :
        [ rng |-> scale.rng,
          loopManager |-> NewLoopLayerManager(seed),
          activeNotes |-> {},
          initialized |-> FALSE,
          scaleNotes |-> scale.val ])

\* init(): Tone.start(), loopManager.init(), initialized = true
init(ae) ==
    IF ae.initialized THEN ae
    ELSE [ae EXCEPT !.loopManager.initialized = TRUE, !.initialized = TRUE]

\* getSynthForMode(mode)
getSynthForMode(s, mode) ==
    CASE mode = "bass" -> [rng |-> s, val |-> "bassSynth"]
      [] mode = "melody" -> [rng |-> s, val |-> "melodySynth"]
      [] mode = "percussion" -> [rng |-> s, val |-> "percussionSynth"]
      [] mode = "chaos" -> [rng |-> s, val |-> "chaosSynth"]
      [] mode = "mixed" -> choice(s, << "bassSynth", "melodySynth", "chaosSynth" >>)
      [] OTHER -> [rng |-> s, val |-> Undefined]

durations == << "16n", "8n", "4n" >>

Unchanged(ae, tn) == [audio |-> ae, tone |-> tn, ret |-> Undefined, calls |-> <<>>]

\* playNote(mode) with a limit that admits one voice more
playNoteAboveLimit(ae, tn, mode, t) ==
    IF ~ae.initialized THEN Unchanged(ae, tn)
    ELSE IF Cardinality(ae.activeNotes) > MAX_POLYPHONY THEN Unchanged(ae, tn)
    ELSE With(getSynthForMode(ae.rng, mode), LAMBDA synth :
         IF synth.val = Undefined
         THEN Unchanged([ae EXCEPT !.rng = synth.rng], tn)
         ELSE With(choice(synth.rng, ae.scaleNotes), LAMBDA note :
              With(choice(note.rng, durations), LAMBDA duration :
              With(next(duration.rng), LAMBDA velocity :
              With(next(velocity.rng), LAMBDA detune :
                  [ audio |-> [ae EXCEPT !.rng = detune.rng,
                                         !.activeNotes = @ \cup {note.val}],
                    tone |-> [tn EXCEPT
                        !.detune = IF synth.val \in DOMAIN tn.detune
                                   THEN [@ EXCEPT ![synth.val] = detune.val] ELSE @,
                        !.timers = Append(@, [kind |-> "release", note |-> note.val,
                                              due |-> t + toMilliseconds(duration.val)])],
                    ret |-> Undefined,
                    calls |-> << [ call |-> "triggerAttackRelease", synth |-> synth.val,
                                   note |-> IF mode = "percussion" THEN Undefined ELSE note.val,
                                   duration |-> duration.val,
                                   velocity |-> IF mode = "percussion" THEN Undefined
                                                ELSE velocity.val ] >> ])))))

\* playNote(mode) at time t.  velocity is 0.6 + u * 0.4 and detune
\* (u - 0.5) * DETUNE_RANGE: both are kept as the draw u.  NoiseSynth has
\* no detune.
playNote(ae, tn, mode, t) ==
    IF ~ae.initialized THEN Unchanged(ae, tn)
    ELSE IF Cardinality(ae.activeNotes) >= MAX_POLYPHONY THEN Unchanged(ae, tn)
    ELSE With(getSynthForMode(ae.rng, mode), LAMBDA synth :
         IF synth.val = Undefined
         THEN Unchanged([ae EXCEPT !.rng = synth.rng], tn)
         ELSE With(choice(synth.rng, ae.scaleNotes), LAMBDA note :
              With(choice(note.rng, durations), LAMBDA duration :
              With(next(duration.rng), LAMBDA velocity :
              With(next(velocity.rng), LAMBDA detune :
                  [ audio |-> [ae EXCEPT !.rng = detune.rng,
                                         !.activeNotes = @ \cup {note.val}],
                    tone |-> [tn EXCEPT
                        !.detune = IF synth.val \in DOMAIN tn.detune
                                   THEN [@ EXCEPT ![synth.val] = detune.val] ELSE @,
                        !.timers = Append(@, [kind |-> "release", note |-> note.val,
                                              due |-> t + toMilliseconds(duration.val)])],
                    ret |-> Undefined,
                    calls |-> << [ call |-> "triggerAttackRelease", synth |-> synth.val,
                                   note |-> IF mode = "percussion" THEN Undefined ELSE note.val,
                                   duration |-> duration.val,
                                   velocity |-> IF mode = "percussion" THEN Undefined
                                                ELSE velocity.val ] >> ])))))

\* the callback of the timer playNote sets: this.activeNotes.delete(note)
releaseNote(ae, note) == [ae EXCEPT !.activeNotes = @ \ {note}]

melodicPatterns ==
    << [notes |-> <<"C3", "G3", "C3", "G3">>, duration |-> "4n", synth |-> "bass", name |-> "Bass Bounce"],
       [notes |-> <<"E4", "G4", "B4", "G4">>, duration |-> "8n", synth |-> "melody", name |-> "Melody Arp"],
       [notes |-> <<"C3", "C3", "G3", "F3">>, duration |-> "8n", synth |-> "bass", name |-> "Bass Walk"],
       [notes |-> <<"A4", "C5", "E5", "C5">>, duration |-> "16n", synth |-> "melody", name |-> "Fast Arp"],
       [notes |-> <<"C4", "E4", "G4", "C5">>, duration |-> "4n", synth |-> "string", name |-> "String Pad"],
       [notes |-> <<"D3", "A3", "F3", "A3">>, duration |-> "8n", synth |-> "bass", name |-> "Bass Groove"],
       [notes |-> <<"G4", "B4", "D5", "B4">>, duration |-> "16n", synth |-> "melody", name |-> "Quick Melody"] >>

\* startBeatLoop(); ret is [layer, notes], the layer the manager returned
\* and the notes that were passed to it, or NoObject when nothing was done
startBeatLoop(ae, tn) ==
    IF ~ae.initialized THEN [Unchanged(ae, tn) EXCEPT !.ret = NoObject]
    ELSE With(choice(ae.rng, melodicPatterns), LAMBDA chosen :
         With(addLoopToRandomLayer(ae.loopManager, tn,
                  IF chosen.val.synth = "bass" THEN "bassSynth"
                  ELSE IF chosen.val.synth = "string" THEN "stringSynth"
                  ELSE "melodySynth",
                  chosen.val.notes, chosen.val.duration), LAMBDA added :
             [ audio |-> [ae EXCEPT !.rng = chosen.rng, !.loopManager = added.lm],
               tone |-> added.tone,
               ret |-> [layer |-> added.ret, notes |-> chosen.val.notes],
               calls |-> added.calls ]))

\* a sound effect: a synth of its own is made and triggered, timers trigger
\* it again and dispose it.  again is <<>> or <<[note, duration, after]>>,
\* disposeAfter is <<>> or <<milliseconds>>
SoundEffect(ae, tn, t, type, note, duration, again, disposeAfter) ==
    [ audio |-> ae,
      tone |-> [tn EXCEPT
          !.effects = Append(@, [type |-> type, disposed |-> FALSE]),
          !.timers = @ \o [k \in DOMAIN again |->
                              [kind |-> "trigger", synth |-> Len(tn.effects) + 1,
                               note |-> again[k].note, duration |-> again[k].duration,
                               due |-> t + again[k].after]]
                       \o [k \in DOMAIN disposeAfter |->
                              [kind |-> "dispose", synth |-> Len(tn.effects) + 1,
                               due |-> t + disposeAfter[k]]]],
      ret |-> Undefined,
      calls |-> << [call |-> "new", synth |-> type],
                   [call |-> "triggerAttackRelease", synth |-> type,
                    note |-> note, duration |-> duration] >> ]

\* honk()
honk(ae, tn, t) == SoundEffect(ae, tn, t, "Synth", "A2", "0.2s", <<>>, <<300>>)

\* beep()
beep(ae, tn, t) ==
    SoundEffect(ae, tn, t, "Synth", "C5", "0.1s",
                <<[note |-> "C5", duration |-> "0.1s", after |-> 150]>>, <<400>>)

\* boop()
boop(ae, tn, t) ==
    With(choice(ae.rng, << "C3", "E3", "G3", "C4" >>), LAMBDA note :
        SoundEffect([ae EXCEPT !.rng = note.rng], tn, t, "MembraneSynth",
                    note.val, "0.2s", <<>>, <<500>>))

\* animalSound()
animalSound(ae, tn, t) ==
    With(choice(ae.rng, << "meow", "woof" >>), LAMBDA sound :
        IF sound.val = "meow"
        THEN SoundEffect([ae EXCEPT !.rng = sound.rng], tn, t, "FMSynth",
                         "E4", "0.3s", <<>>, <<500>>)
        ELSE SoundEffect([ae EXCEPT !.rng = sound.rng], tn, t, "NoiseSynth",
                         Undefined, "0.15s", <<>>, <<>>))

\* whoosh()
whoosh(ae, tn, t) == SoundEffect(ae, tn, t, "NoiseSynth", Undefined, "0.4s", <<>>, <<>>)

\* zap()
zap(ae, tn, t) ==
    SoundEffect(ae, tn, t, "Synth", "E5", "0.2s",
                <<[note |-> "E4", duration |-> "0.1s", after |-> 100]>>, <<400>>)

effects == << "honk", "beep", "boop", "animalSound", "whoosh", "zap" >>

\* playSoundEffect() at time t
playSoundEffect(ae, tn, t) ==
    IF ~ae.initialized THEN Unchanged(ae, tn)
    ELSE With(choice(ae.rng, effects), LAMBDA effect :
         With([ae EXCEPT !.rng = effect.rng], LAMBDA drawn :
             CASE effect.val = "honk" -> honk(drawn, tn, t)
               [] effect.val = "beep" -> beep(drawn, tn, t)
               [] effect.val = "boop" -> boop(drawn, tn, t)
               [] effect.val = "animalSound" -> animalSound(drawn, tn, t)
               [] effect.val = "whoosh" -> whoosh(drawn, tn, t)
               [] effect.val = "zap" -> zap(drawn, tn, t)))

\* modifyLoops(): returns at once
modifyLoops(ae, tn) == Unchanged(ae, tn)

\* LoopLayerManager.dispose(): the sequence of each layer is stopped and
\* disposed (layer.loop is never set), and the transport is stopped; the
\* layer objects are left as they are
LoopLayerManager_dispose(lm, tn) ==
    [tn EXCEPT
        !.sequences = [id \in DOMAIN @ |->
                          IF \E i \in LayerIds : lm.layers[i].sequence = id
                          THEN [@[id] EXCEPT !.state = "stopped", !.disposed = TRUE]
                          ELSE @[id]],
        !.transport = "stopped"]

\* AudioEngine.dispose(): the five synths and the loop manager are
\* disposed, activeNotes is cleared, the transport is stopped
AudioEngine_dispose(ae, tn) ==
    [ audio |-> [ae EXCEPT !.activeNotes = {}],
      tone |-> [LoopLayerManager_dispose(ae.loopManager, tn)
                    EXCEPT !.synthsDisposed = TRUE, !.transport = "stopped"],
      ret |-> Undefined,
      calls |-> <<>> ]

\* stopAll(): this.activeNotes.clear(); the timers that are set stay set
stopAll(ae) == [ae EXCEPT !.activeNotes = {}]

\* playChord(notes) at time t: note i is triggered 50 i milliseconds later
playChord(ae, tn, notes, t) ==
    IF ~ae.initialized THEN Unchanged(ae, tn)
    ELSE [Unchanged(ae, tn) EXCEPT !.calls =
             [i \in DOMAIN notes |->
                 [ call |-> "triggerAttackRelease", synth |-> "melodySynth",
                   note |-> notes[i], duration |-> "2n",
                   at |-> t + 50 * (i - 1), velocity |-> Rat(6, 10) ]]]

\* playSurpriseChord() at time t
playSurpriseChord(ae, tn, t) ==
    With(choice(ae.rng, ROOT_NOTES), LAMBDA root :
        playChord([ae EXCEPT !.rng = root.rng], tn,
                  << toNote(toMidi(root.val)), toNote(toMidi(root.val) + 4),
                     toNote(toMidi(root.val) + 7) >>, t))

\* the timers of tn that are due at time t, and the one the event loop runs
\* first: the earliest, and among equals the one set first
DueAt(tn, t) == { k \in DOMAIN tn.timers : tn.timers[k].due <= t }

FirstDueAt(tn, t) ==
    CHOOSE k \in DueAt(tn, t) :
        \A j \in DueAt(tn, t) :
            \/ tn.timers[j].due > tn.timers[k].due
            \/ tn.timers[j].due = tn.timers[k].due /\ j >= k

\* the callback of timer k runs and the timer is gone
runTimer(ae, tn, k) ==
    [ audio |-> IF tn.timers[k].kind = "release"
                THEN [ae EXCEPT !.activeNotes = @ \ {tn.timers[k].note}] ELSE ae,
      tone |-> [tn EXCEPT
          !.effects = IF tn.timers[k].kind = "dispose"
                      THEN [@ EXCEPT ![tn.timers[k].synth].disposed = TRUE] ELSE @,
          !.timers = [j \in 1..(Len(@) - 1) |-> IF j < k THEN @[j] ELSE @[j + 1]]],
      ret |-> Undefined,
      calls |-> IF tn.timers[k].kind = "trigger"
                THEN << [call |-> "triggerAttackRelease",
                         synth |-> tn.effects[tn.timers[k].synth].type,
                         note |-> tn.timers[k].note,
                         duration |-> tn.timers[k].duration] >>
                ELSE <<>> ]

----------------------------------------------------------------------------
(* The engine under a driver: every call is one step, a timer that is due  *)
(* fires as a step of its own, and the clock advances in between.          *)

NewCount == [plays |-> 0, loops |-> 0, controls |-> 0]

Last(op, args, r) == [op |-> op, args |-> args, ret |-> r.ret, calls |-> r.calls]

AudioConstruct ==
    /\ \E seed \in Seeds : audio = NewAudioEngine(seed)
    /\ tone = NewTone
    /\ audioLast = [op |-> "new", args |-> <<>>, ret |-> Undefined, calls |-> <<>>]
    /\ audioCount = NewCount
    /\ now = 0

\* await audioEngine.init(), which the session calls once
AudioInit ==
    /\ ~audio.initialized
    /\ audio' = init(audio)
    /\ audioLast' = [op |-> "init", args |-> <<>>, ret |-> Undefined, calls |-> <<>>]
    /\ UNCHANGED <<tone, audioCount, now>>

PlayNote(mode) ==
    /\ audioCount.plays < MaxPlays
    /\ \E r \in {playNote(audio, tone, mode, now)} :
           /\ audio' = r.audio
           /\ tone' = r.tone
           /\ audioLast' = Last("playNote", <<mode>>, r)
    /\ audioCount' = [audioCount EXCEPT !.plays = @ + 1]
    /\ UNCHANGED now

\* the timers that are due, and the one the event loop runs first: the
\* earliest, and among equals the one set first
DueTimers == { k \in DOMAIN tone.timers : tone.timers[k].due <= now }

FirstDue ==
    CHOOSE k \in DueTimers :
        \A j \in DueTimers :
            \/ tone.timers[j].due > tone.timers[k].due
            \/ tone.timers[j].due = tone.timers[k].due /\ j >= k

RemoveAt(seq, k) == [j \in 1..(Len(seq) - 1) |-> IF j < k THEN seq[j] ELSE seq[j + 1]]

FireTimer ==
    /\ DueTimers # {}
    /\ audio' = releaseNote(audio, tone.timers[FirstDue].note)
    /\ tone' = [tone EXCEPT !.timers = RemoveAt(@, FirstDue)]
    /\ audioLast' = [op |-> "timer", args |-> <<tone.timers[FirstDue].note>>,
                     ret |-> Undefined, calls |-> <<>>]
    /\ UNCHANGED <<audioCount, now>>

AdvanceClock ==
    /\ now + ClockStep <= MaxClock
    /\ now' = now + ClockStep
    /\ UNCHANGED audioVars

StartBeatLoop ==
    /\ audioCount.loops < MaxLoops
    /\ \E r \in {startBeatLoop(audio, tone)} :
           /\ audio' = r.audio
           /\ tone' = r.tone
           /\ audioLast' = Last("startBeatLoop", <<>>, r)
    /\ audioCount' = [audioCount EXCEPT !.loops = @ + 1]
    /\ UNCHANGED now

TogglePlayPause ==
    /\ audioCount.controls < MaxControls
    /\ \E r \in {togglePlayPause(audio.loopManager, tone)} :
           /\ audio' = [audio EXCEPT !.loopManager = r.lm]
           /\ tone' = r.tone
           /\ audioLast' = Last("togglePlayPause", <<>>, r)
    /\ audioCount' = [audioCount EXCEPT !.controls = @ + 1]
    /\ UNCHANGED now

CycleLayer ==
    /\ audio' = [audio EXCEPT !.loopManager = cycleLayer(@)]
    /\ audioLast' = [op |-> "cycleLayer", args |-> <<>>, ret |-> Undefined, calls |-> <<>>]
    /\ UNCHANGED <<tone, audioCount, now>>

\* the steps of the callers (1 and -1) and steps that overshoot the range
PitchArgs == {-25, -1, 0, 1, 25}

AdjustPitch(semitones) ==
    /\ audioCount.controls < MaxControls
    /\ audio' = [audio EXCEPT !.loopManager = adjustPitch(@, semitones)]
    /\ audioLast' = [op |-> "adjustPitch", args |-> <<semitones>>,
                     ret |-> Undefined, calls |-> <<>>]
    /\ audioCount' = [audioCount EXCEPT !.controls = @ + 1]
    /\ UNCHANGED <<tone, now>>

\* the multipliers of the callers (1.1 and 0.9), zero, a negative one and
\* one that overshoots the range
TempoArgs == {Rat(-3, 1), Rat(0, 1), Rat(9, 10), Rat(11, 10), Rat(5, 1)}

AdjustTempo(multiplier) ==
    /\ audioCount.controls < MaxControls
    /\ \E r \in {adjustTempo(audio.loopManager, tone, multiplier)} :
           /\ audio' = [audio EXCEPT !.loopManager = r.lm]
           /\ tone' = r.tone
           /\ audioLast' = Last("adjustTempo", <<multiplier>>, r)
    /\ audioCount' = [audioCount EXCEPT !.controls = @ + 1]
    /\ UNCHANGED now

StopAll ==
    /\ audio' = stopAll(audio)
    /\ audioLast' = [op |-> "stopAll", args |-> <<>>, ret |-> Undefined, calls |-> <<>>]
    /\ UNCHANGED <<tone, audioCount, now>>

\* Tone calls the callback of a sequence that is started and not disposed
\* while the Transport runs, with one note of its pattern
SequenceStep(id, k) ==
    /\ id \in DOMAIN tone.sequences
    /\ Live(tone.sequences[id])
    /\ tone.transport = "started"
    /\ k \in DOMAIN tone.sequences[id].notes
    /\ audioLast' = [op |-> "step", args |-> <<id, k>>, ret |-> Undefined,
                     calls |-> sequenceCallback(audio.loopManager, tone.sequences[id],
                                                tone.sequences[id].notes[k])]
    /\ UNCHANGED <<audio, tone, audioCount, now>>

----------------------------------------------------------------------------
(* SpecVoices: playNote calls, release timers and the clock                *)

VoiceModes == {"percussion", "mixed"}

VoicesNext ==
    \/ AudioInit
    \/ \E mode \in VoiceModes : PlayNote(mode)
    \/ FireTimer
    \/ AdvanceClock

SpecVoicesInit == AudioConstruct /\ RngIdle /\ MapIdle /\ VisualIdle /\ SessionIdle
SpecVoicesNext == VoicesNext /\ UNCHANGED <<rngVars, mapVars, visualVars, sessionVars>>
SpecVoices == SpecVoicesInit /\ [][SpecVoicesNext]_vars

\* the voices that were triggered and whose duration has not elapsed: one
\* per release timer that is not yet due
SoundingVoices == { k \in DOMAIN tone.timers : tone.timers[k].due > now }

\* C4: after any sequence of playNote calls and release timers on an
\* initialized engine, the number of voices that were triggered and whose
\* sounding duration has not elapsed is at most MAX_POLYPHONY.
C4_SoundingWithinPolyphony == Cardinality(SoundingVoices) <= MAX_POLYPHONY

\* C31: playNote called on an initialized engine while the active-voice
\* count is at MAX_POLYPHONY triggers no voice, schedules no release timer,
\* and leaves the generator state and the active-voice set unchanged.
C31_PlayNoteAtLimitDoesNothing ==
    [][ ( /\ audioLast'.op = "playNote"
          /\ audioCount'.plays = audioCount.plays + 1
          /\ audio.initialized
          /\ Cardinality(audio.activeNotes) >= MAX_POLYPHONY ) =>
        ( /\ audioLast'.calls = <<>>
          /\ tone'.timers = tone.timers
          /\ tone' = tone
          /\ audio'.rng = audio.rng
          /\ audio'.activeNotes = audio.activeNotes ) ]_vars

\* a playNote call has just returned on an engine that holds MAX_POLYPHONY
\* notes and has started no voice, while a note of the scale is not held
C31_Witness ==
    /\ audioLast.op = "playNote"
    /\ audioLast.calls = <<>>
    /\ audio.initialized
    /\ Cardinality(audio.activeNotes) = MAX_POLYPHONY
    /\ Len(tone.timers) >= MAX_POLYPHONY
    /\ Range(audio.scaleNotes) \ audio.activeNotes # {}

----------------------------------------------------------------------------
(* SpecRelease: a few playNote calls, their release timers, stopAll and    *)
(* the clock                                                               *)

ReleaseNext ==
    \/ AudioInit
    \/ \E mode \in VoiceModes : audioCount.plays < MaxCalls /\ PlayNote(mode)
    \/ FireTimer
    \/ StopAll
    \/ AdvanceClock

SpecReleaseInit == AudioConstruct /\ RngIdle /\ MapIdle /\ VisualIdle /\ SessionIdle
SpecReleaseNext == ReleaseNext /\ UNCHANGED <<rngVars, mapVars, visualVars, sessionVars>>
SpecRelease == SpecReleaseInit /\ [][SpecReleaseNext]_vars

\* whenever a triggered voice is still within its duration, its note is in
\* the active-voice set
SoundingAreCounted ==
    \A k \in SoundingVoices : tone.timers[k].note \in audio.activeNotes

\* a release timer removes no entry that a voice still within its duration
\* holds
TimerSparesLaterVoices ==
    [][ (audioLast'.op = "timer" /\ Len(tone'.timers) < Len(tone.timers)) =>
          \A k \in DOMAIN tone'.timers :
              (tone'.timers[k].due > now /\ tone'.timers[k].note \in audio.activeNotes)
                  => tone'.timers[k].note \in audio'.activeNotes ]_vars

\* C40: under any interleaving of playNote calls, release-timer firings and
\* stopAll, a voice's entry leaves the active-voice set only when that
\* voice's own duration has elapsed: whenever a triggered voice is still
\* within its duration it is counted in the active-voice set, and a release
\* timer never removes the entry of a voice triggered later.
C40_EntryLeavesWhenOwnDurationElapsed ==
    /\ []SoundingAreCounted
    /\ TimerSparesLaterVoices

----------------------------------------------------------------------------
(* SpecLoops: the loop layers under startBeatLoop and the layer controls   *)

LoopsNext ==
    \/ AudioInit
    \/ StartBeatLoop
    \/ TogglePlayPause
    \/ CycleLayer
    \/ \E semitones \in PitchArgs : AdjustPitch(semitones)
    \/ \E multiplier \in TempoArgs : AdjustTempo(multiplier)

SpecLoopsInit == AudioConstruct /\ RngIdle /\ MapIdle /\ VisualIdle /\ SessionIdle
SpecLoopsNext == LoopsNext /\ UNCHANGED <<rngVars, mapVars, visualVars, sessionVars>>
SpecLoops == SpecLoopsInit /\ [][SpecLoopsNext]_vars

layers == audio.loopManager.layers

\* the last call was a startBeatLoop that assigned a pattern
LoopAdded == audioLast.op = "startBeatLoop" /\ audioLast.ret # NoObject

\* C7: when addLoopToRandomLayer assigns a new pattern to a layer, the
\* pattern, pitch, tempo and playing flag of every other layer are unchanged.
C7_OtherLayersUnchanged ==
    [][ LoopAdded' =>
          \A j \in LayerIds \ {audioLast'.ret.layer} :
              /\ layers'[j].pattern = layers[j].pattern
              /\ layers'[j].pitch = layers[j].pitch
              /\ layers'[j].tempo = layers[j].tempo
              /\ layers'[j].playing = layers[j].playing ]_vars

\* a pattern was assigned while another layer held a pattern with a pitch
\* and a tempo of its own
C7_Witness ==
    /\ LoopAdded
    /\ \E j \in LayerIds \ {audioLast.ret.layer} :
          /\ layers[j].pattern # <<>>
          /\ layers[j].pitch # 0 \/ layers[j].tempo # Rat(1, 1)

C37_FourLayersAndSelectionCycle ==
    /\ [](/\ DOMAIN layers = 1..4
          /\ \A i \in DOMAIN layers : layers[i].id = i
          /\ audio.loopManager.selectedLayer \in 1..4
          /\ LoopAdded => audioLast.ret.layer \in 1..4)
    /\ [][ (audioLast'.op = "cycleLayer" /\ audio' # audio) =>
             /\ audio'.loopManager.selectedLayer =
                    (CASE audio.loopManager.selectedLayer = 1 -> 2
                       [] audio.loopManager.selectedLayer = 2 -> 3
                       [] audio.loopManager.selectedLayer = 3 -> 4
                       [] audio.loopManager.selectedLayer = 4 -> 1)
             /\ layers' = layers ]_vars

\* the selection has just gone from 4 back to 1, and patterns were drawn
\* onto two layers or more
C37_Witness ==
    /\ audioLast.op = "cycleLayer"
    /\ audio.loopManager.selectedLayer = 1
    /\ Cardinality({ i \in LayerIds : layers[i].pattern # <<>> }) >= 2

\* the manager after two togglePlayPause calls in a row
ToggledTwice ==
    togglePlayPause(togglePlayPause(audio.loopManager, tone).lm,
                    togglePlayPause(audio.loopManager, tone).tone).lm

\* C34: on a selected layer that has a pattern, togglePlayPause negates that
\* layer's playing flag and changes nothing else: the layer's pattern, pitch
\* and tempo and every other layer are unchanged, and two consecutive
\* toggles restore the original layer state.
C34_ToggleFlipsPlayingOnly ==
    /\ [](layers[audio.loopManager.selectedLayer].pattern # <<>> =>
             ToggledTwice = audio.loopManager)
    /\ [][ ( /\ audioLast'.op = "togglePlayPause"
             /\ audioCount'.controls = audioCount.controls + 1
             /\ layers[audio.loopManager.selectedLayer].pattern # <<>> ) =>
           /\ audio'.loopManager.selectedLayer = audio.loopManager.selectedLayer
           /\ layers' = [layers EXCEPT ![audio.loopManager.selectedLayer].playing = ~@]
           /\ audio'.loopManager.rng = audio.loopManager.rng ]_vars

\* the second of two toggles has restarted the selected layer, while
\* another layer holds a pattern
C34_Witness ==
    /\ audioLast.op = "togglePlayPause"
    /\ audioCount.controls = 2
    /\ layers[audio.loopManager.selectedLayer].pattern # <<>>
    /\ layers[audio.loopManager.selectedLayer].playing
    /\ Len(audioLast.calls) = 1
    /\ audioLast.calls[1].call = "sequence.start"
    /\ \E j \in LayerIds \ {audio.loopManager.selectedLayer} : layers[j].pattern # <<>>

\* the layer controls
Controls == { "togglePlayPause", "adjustPitch", "adjustTempo" }

\* C24: togglePlayPause, adjustPitch and adjustTempo called while the
\* selected layer has no pattern change nothing: the pattern, pitch, tempo
\* and playing flag of every layer are as before, no sequence is touched,
\* and the selected layer is there for the call to read, so nothing throws.
C24_ControlsOnEmptyLayerDoNothing ==
    [][ ( /\ audioLast'.op \in Controls
          /\ layers[audio.loopManager.selectedLayer].pattern = <<>> ) =>
            /\ audio.loopManager.selectedLayer \in DOMAIN layers
            /\ \A j \in LayerIds :
                   /\ layers'[j].pattern = layers[j].pattern
                   /\ layers'[j].pitch = layers[j].pitch
                   /\ layers'[j].tempo = layers[j].tempo
                   /\ layers'[j].playing = layers[j].playing
            /\ tone' = tone
            /\ audioLast'.calls = <<>> ]_vars

\* a control with an argument that would change a layer was called on an
\* empty selected layer while another layer held a pattern
C24_Witness ==
    /\ audioLast.op = "adjustTempo"
    /\ audioLast.args[1] = Rat(11, 10)
    /\ layers[audio.loopManager.selectedLayer].pattern = <<>>
    /\ \E j \in LayerIds : layers[j].pattern # <<>>

LiveOn(i) == { id \in DOMAIN tone.sequences :
                  tone.sequences[id].layer = i /\ Live(tone.sequences[id]) }

Position(calls, name) == { k \in DOMAIN calls : calls[k].call = name }

\* C9: each layer holds at most one live sequence; when a layer that has a
\* pattern is drawn again its previous sequence is stopped and disposed
\* before the new one is started, the layer's pattern is the newly
\* assigned notes and the layer is playing.
C9_OneLiveSequencePerLayer ==
    /\ \A i \in LayerIds : Cardinality(LiveOn(i)) <= 1
    /\ LoopAdded =>
          LET layer == layers[audioLast.ret.layer]
          IN  /\ layer.pattern = audioLast.ret.notes
              /\ layer.playing
              /\ LiveOn(layer.id) = {layer.sequence}
              /\ \A id \in DOMAIN tone.sequences :
                    tone.sequences[id].layer = layer.id /\ id # layer.sequence
                        => /\ tone.sequences[id].disposed
                           /\ tone.sequences[id].state = "stopped"
              /\ \A s \in Position(audioLast.calls, "sequence.start") :
                    \A d \in Position(audioLast.calls, "sequence.stop")
                             \cup Position(audioLast.calls, "sequence.dispose") : d < s

\* a layer that already had a pattern was drawn again
C9_Witness ==
    /\ LoopAdded
    /\ Position(audioLast.calls, "sequence.dispose") # {}
    /\ \E id \in DOMAIN tone.sequences : tone.sequences[id].disposed

\* C39: in every reachable state, for each layer that has an assigned
\* pattern, the playback rate of its live sequence equals the layer's stored
\* tempo multiplier; replacing the pattern of a layer keeps the layer's
\* previous pitch offset and tempo multiplier and starts the new sequence
\* at that tempo.
C39_RateFollowsTempo ==
    /\ [](\A i \in LayerIds :
             layers[i].pattern # <<>> =>
                 /\ layers[i].sequence \in DOMAIN tone.sequences
                 /\ tone.sequences[layers[i].sequence].playbackRate = layers[i].tempo)
    /\ [][ (LoopAdded' /\ audioCount'.loops = audioCount.loops + 1) =>
             /\ layers'[audioLast'.ret.layer].pitch = layers[audioLast'.ret.layer].pitch
             /\ layers'[audioLast'.ret.layer].tempo = layers[audioLast'.ret.layer].tempo
             /\ layers'[audioLast'.ret.layer].sequence = Len(tone.sequences) + 1
             /\ tone'.sequences[Len(tone.sequences) + 1].playbackRate =
                    layers[audioLast'.ret.layer].tempo
             /\ tone'.sequences[Len(tone.sequences) + 1].state = "started" ]_vars

\* the pattern of a layer whose pitch and tempo had been adjusted has just
\* been replaced
C39_Witness ==
    /\ LoopAdded
    /\ Position(audioLast.calls, "sequence.dispose") # {}
    /\ layers[audioLast.ret.layer].pitch # 0
    /\ layers[audioLast.ret.layer].tempo \notin {Rat(1, 1), Rat(1, 4), Rat(4, 1)}
    /\ tone.sequences[layers[audioLast.ret.layer].sequence].playbackRate # Rat(1, 1)

----------------------------------------------------------------------------
(* SpecSteps: the steps of the running sequences between startBeatLoop,    *)
(* cycleLayer, togglePlayPause and adjustPitch calls                       *)

StepsNext ==
    \/ AudioInit
    \/ StartBeatLoop
    \/ TogglePlayPause
    \/ CycleLayer
    \/ \E semitones \in PitchArgs : AdjustPitch(semitones)
    \/ \E id \in 1..MaxLoops, k \in 1..4 : SequenceStep(id, k)

SpecStepsInit == AudioConstruct /\ RngIdle /\ MapIdle /\ VisualIdle /\ SessionIdle
SpecStepsNext == StepsNext /\ UNCHANGED <<rngVars, mapVars, visualVars, sessionVars>>
SpecSteps == SpecStepsInit /\ [][SpecStepsNext]_vars

\* the layer and the pattern note of the step audioLast records
StepLayer(last) == layers[tone.sequences[last.args[1]].layer]
StepNote(last) == tone.sequences[last.args[1]].notes[last.args[2]]

\* C32: every step a loop layer sounds is transposed by the layer's pitch
\* offset as stored at the moment that step fires, so an adjustPitch call
\* affects only steps that fire after it (the call itself sounds nothing);
\* a layer whose playing flag is false sounds no step.
C32_StepsUseTheCurrentPitch ==
    /\ [](\A id \in DOMAIN tone.sequences :
             Live(tone.sequences[id]) => layers[tone.sequences[id].layer].playing)
    /\ [][ /\ audioLast'.op = "step" =>
               /\ Len(audioLast'.calls) = (IF StepLayer(audioLast').playing THEN 1 ELSE 0)
               /\ \A c \in DOMAIN audioLast'.calls :
                      /\ audioLast'.calls[c].call = "triggerAttackRelease"
                      /\ Frequency(audioLast'.calls[c].note) =
                             Frequency(StepNote(audioLast')) + StepLayer(audioLast').pitch
           /\ audioLast'.op = "adjustPitch" =>
               /\ audioLast'.calls = <<>>
               /\ tone' = tone ]_vars

\* a step has sounded a note that is not the pattern's, on a layer whose
\* pitch was adjusted, while another layer with a pattern is paused
C32_Witness ==
    /\ audioLast.op = "step"
    /\ Len(audioLast.calls) = 1
    /\ StepLayer(audioLast).pitch \notin {0, 12, -12}
    /\ audioLast.calls[1].note # StepNote(audioLast)
    /\ \E i \in LayerIds : layers[i].pattern # <<>> /\ ~layers[i].playing

----------------------------------------------------------------------------
(* utils/colors.ts and the lists of constants/distributions.ts.  A glyph   *)
(* of the source that is not ASCII is written as its name.                 *)

COLOR_SCHEMES ==
    << [name |-> "primary", background |-> "#FFFFFF",
        palette |-> <<"#FF0000", "#0000FF", "#FFFF00", "#00FF00", "#FF00FF">>],
       [name |-> "neon", background |-> "#000000",
        palette |-> <<"#FF1493", "#00FFFF", "#00FF00", "#FF00FF", "#FFFF00">>],
       [name |-> "pastel", background |-> "#FFF8E1",
        palette |-> <<"#FFB3BA", "#BAFFC9", "#BAE1FF", "#FFFFBA", "#FFD1FF">>],
       [name |-> "earth", background |-> "#FFFACD",
        palette |-> <<"#FF6B35", "#8B4513", "#228B22", "#F4A460", "#D2691E">>],
       [name |-> "ocean", background |-> "#F0F8FF",
        palette |-> <<"#008080", "#000080", "#00CED1", "#4682B4", "#1E90FF">>],
       [name |-> "candy", background |-> "#FFF0F5",
        palette |-> <<"#FF1493", "#9400D3", "#00CED1", "#FF69B4", "#DA70D6">>] >>

\* getRandomScheme(rng)
getRandomScheme(s) == choice(s, COLOR_SCHEMES)

ANIMALS ==
    << "cat", "dog", "bird", "fish", "rabbit", "bear",
       "panda", "koala", "frog", "pig", "cow", "monkey",
       "lion", "tiger", "fox", "chicken", "duck", "bee",
       "butterfly", "bug", "octopus", "crab", "turtle", "elephant",
       "rainbow", "star", "glowing star", "dizzy", "sparkles", "balloon",
       "party popper", "confetti ball", "gift", "apple", "banana", "strawberry",
       "cherry blossom", "hibiscus", "sunflower", "blossom", "sun", "moon",
       "soccer ball", "basketball", "palette", "masks", "circus tent", "ferris wheel" >>
SHAPES == << "circle", "square", "triangle", "star", "heart" >>
SYMBOLS == << "black star", "black heart", "black circle", "black square",
              "black triangle", "black florette", "black sun", "last quarter moon" >>
BABY_WORDS ==
    << "MAMA", "MAMA", "MAMA",
       "BABA", "BABA", "DADA", "DADA",
       "MUM", "MUM",
       "WOW", "YAY", "BOO",
       "HI", "BYE", "UP", "YES", "FUN", "HAPPY",
       "LOLA", "DOODLE" >>
NUMBERS == << "1", "2", "3", "4", "5", "6", "7", "8", "9", "0" >>

----------------------------------------------------------------------------
(* utils/random.ts: next() in the arithmetic of the language.  this.seed   *)
(* is a number, that is a double: an integer is held exactly up to 53      *)
(* significant bits, the result of * and of + is rounded to the nearest    *)
(* double (ties to even), and % is exact and takes the sign of the         *)
(* dividend.  An integer is [neg, mag]: its sign and its magnitude in five *)
(* limbs of 16 bits, lowest first.                                         *)

Limbs == 1..5

Zero == [k \in Limbs |-> 0]

\* the number of an integer literal
Integer(n) ==
    [ neg |-> n < 0,
      mag |-> [k \in Limbs |-> CASE k = 1 -> (IF n < 0 THEN -n ELSE n) % Limb
                                 [] k = 2 -> (IF n < 0 THEN -n ELSE n) \div Limb
                                 [] OTHER -> 0] ]

Bit(mag, b) == (mag[b \div 16 + 1] \div 2^(b % 16)) % 2

\* the number of significant bits of a magnitude
BitLength(mag) ==
    IF mag = Zero THEN 0
    ELSE 1 + CHOOSE b \in 0..79 : Bit(mag, b) = 1 /\ \A c \in (b + 1)..79 : Bit(mag, c) = 0

\* the carry into limb k of a + b
RECURSIVE CarryInto(_, _, _)
CarryInto(a, b, k) ==
    IF k = 1 THEN 0 ELSE (a[k - 1] + b[k - 1] + CarryInto(a, b, k - 1)) \div Limb

MagAdd(a, b) == [k \in Limbs |-> (a[k] + b[k] + CarryInto(a, b, k)) % Limb]

\* the borrow from limb k of a - b, for a >= b
RECURSIVE BorrowFrom(_, _, _)
BorrowFrom(a, b, k) ==
    IF k = 1 THEN 0
    ELSE IF a[k - 1] - b[k - 1] - BorrowFrom(a, b, k - 1) < 0 THEN 1 ELSE 0

MagSub(a, b) == [k \in Limbs |-> (a[k] - b[k] - BorrowFrom(a, b, k) + Limb) % Limb]

MagLess(a, b) ==
    \E k \in Limbs : a[k] < b[k] /\ \A j \in (k + 1)..5 : a[j] = b[j]

\* the carry into limb k of mag * n, for 0 <= n < 2^21
RECURSIVE MulCarry(_, _, _)
MulCarry(mag, n, k) ==
    IF k = 1 THEN 0
    ELSE ( mag[k - 1] * (n % Limb)
           + (IF k > 2 THEN mag[k - 2] * (n \div Limb) ELSE 0)
           + MulCarry(mag, n, k - 1) ) \div Limb

MagMul(mag, n) ==
    [k \in Limbs |-> ( mag[k] * (n % Limb)
                       + (IF k > 1 THEN mag[k - 1] * (n \div Limb) ELSE 0)
                       + MulCarry(mag, n, k) ) % Limb]

\* the magnitude with its d lowest bits cleared, and 2^d
ClearLow(mag, d) ==
    [k \in Limbs |-> IF 16 * k <= d THEN 0
                     ELSE IF 16 * (k - 1) >= d THEN mag[k]
                     ELSE (mag[k] \div 2^(d - 16 * (k - 1))) * 2^(d - 16 * (k - 1))]

PowerOfTwo(d) == [k \in Limbs |-> IF k = d \div 16 + 1 THEN 2^(d % 16) ELSE 0]

\* the nearest double of an integer: beyond 53 significant bits the low
\* bits are rounded off, to the nearest, and to even on a tie
RoundToDouble(mag) ==
    LET d == BitLength(mag) - 53
    IN  IF d <= 0 THEN mag
        ELSE IF /\ Bit(mag, d - 1) = 1
                /\ \/ \E b \in 0..(d - 2) : Bit(mag, b) = 1
                   \/ Bit(mag, d) = 1
             THEN MagAdd(ClearLow(mag, d), PowerOfTwo(d))
             ELSE ClearLow(mag, d)

\* x * n for a literal 0 <= n < 2^21
Times(x, n) == [neg |-> x.neg, mag |-> RoundToDouble(MagMul(x.mag, n))]

\* x + n for a literal 0 <= n < 2^31
Plus(x, n) ==
    IF ~x.neg THEN [neg |-> FALSE, mag |-> RoundToDouble(MagAdd(x.mag, Integer(n).mag))]
    ELSE IF MagLess(Integer(n).mag, x.mag)
         THEN [neg |-> TRUE, mag |-> RoundToDouble(MagSub(x.mag, Integer(n).mag))]
         ELSE [neg |-> FALSE, mag |-> RoundToDouble(MagSub(Integer(n).mag, x.mag))]

\* x % 2 ** 32: the remainder has the sign of x
Remainder32(x) ==
    [ neg |-> x.neg /\ (x.mag[1] # 0 \/ x.mag[2] # 0),
      mag |-> [k \in Limbs |-> IF k <= 2 THEN x.mag[k] ELSE 0] ]

\* next() on this.seed = x: the seed after the call; the value returned is
\* that seed over 2^32
nextSeed(x) == Remainder32(Plus(Times(x, LcgMultiplier), LcgIncrement))

\* int(min, max) on this.seed = x, for 0 < max + 1 - min < 2^15:
\* Math.floor(min + this.next() * (max + 1 - min)).  The seed after next()
\* is below 2^32 in magnitude, so the quotient, the product (below 2^47)
\* and the sum are exact doubles; the floor of a negative product with a
\* fraction is one below its whole part.
intOfSeed(x, min, max) ==
    LET seed == nextSeed(x)
        product == MagMul(seed.mag, max + 1 - min)
        whole == product[3] + Limb * product[4]
    IN  [ seed |-> seed,
          val |-> IF ~seed.neg THEN min + whole
                  ELSE IF product[1] = 0 /\ product[2] = 0 THEN min - whole
                  ELSE min - whole - 1 ]

\* choice(array) on this.seed = x: array[this.int(0, array.length - 1)],
\* which is undefined at an index the array does not have
choiceOfSeed(x, array) ==
    LET i == intOfSeed(x, 0, Len(array) - 1)
    IN  [ seed |-> i.seed, index |-> i.val,
          val |-> IF i.val \in 0..(Len(array) - 1) THEN array[i.val + 1] ELSE Undefined ]

\* (x * 1664525 + 1013904223) mod 2^32 in the integers, a magnitude
\* below 2^32
Recurrence(x) ==
    LET product == MagMul(x.mag, LcgMultiplier)
        increment == Integer(LcgIncrement).mag
        low(mag) == [k \in Limbs |-> IF k <= 2 THEN mag[k] ELSE 0]
    IN  IF ~x.neg THEN low(MagAdd(product, increment))
        ELSE IF MagLess(increment, product)
             THEN low(MagSub(PowerOfTwo(32), low(MagSub(product, increment))))
             ELSE low(MagSub(increment, product))

----------------------------------------------------------------------------
(* core/VisualEngine.ts                                                    *)
(* An operation takes the engine ve (and the time t where it reads the     *)
(* clock) and returns the engine after it.                                 *)
(*                                                                         *)
(* Numbers.  An opacity is kept in units of 1/(100 * FADE_OUT_DURATION),   *)
(* in which the step of one frame, 16.67 / FADE_OUT_DURATION, is the       *)
(* integer 1667.  A length drawn with range() is kept as [int, frac]; the  *)
(* geometry of findGoodPosition and burstParticles (margins, distances)    *)
(* is computed on the whole pixels of sizes and coordinates, where the     *)
(* source computes it on doubles.  An angle u * 2 * PI is kept as the      *)
(* draw u.  The place of a burst element, origin + cos/sin(angle) *        *)
(* distance, is kept as its polar parts.                                   *)

CANVAS_WIDTH == 2000
CANVAS_HEIGHT == 2000
MAX_ANIMATED_ELEMENTS == 20
MAX_PERMANENT_ELEMENTS == 100
FADE_OUT_DURATION == 2000
FrameCentiMs == 1667

Opaque == 100 * FADE_OUT_DURATION
FadeStep == FrameCentiMs

\* a whole number as a length
Whole(n) == [int |-> n, frac |-> [hi |-> 0, lo |-> 0]]

\* constructor(seed, colorScheme) at time t
NewVisualEngine(seed, colorScheme, t) ==
    [ canvas |-> FALSE,
      ctx |-> FALSE,
      permanentElements |-> <<>>,
      animatedElements |-> <<>>,
      backgroundColor |-> colorScheme.background,
      animationFrameId |-> FALSE,
      startTime |-> t,
      colorScheme |-> colorScheme,
      rng |-> SeededRandom(seed),
      elementIdCounter |-> 0,
      isDrawing |-> FALSE,
      currentStroke |-> NoObject,
      completedStrokes |-> <<>>,
      currentDrawStyle |-> NoObject,
      mathFlashes |-> <<>> ]

\* one draw of a position inside the margin
DrawPosition(s, margin) ==
    With(range(s, margin, CANVAS_WIDTH - margin), LAMBDA x :
    With(range(x.rng, margin, CANVAS_HEIGHT - margin), LAMBDA y :
        [rng |-> y.rng, val |-> [x |-> x.val, y |-> y.val]]))

\* dist < (size + elem.size) / 2 + 40 for some elem of recent
Collides(pos, recent, size) ==
    \E k \in DOMAIN recent :
        4 * ((pos.x.int - recent[k].x.int) * (pos.x.int - recent[k].x.int)
             + (pos.y.int - recent[k].y.int) * (pos.y.int - recent[k].y.int))
          < (size.int + recent[k].size.int + 80) * (size.int + recent[k].size.int + 80)

\* the attempts of findGoodPosition from attempt on; after 20 collisions
\* the position drawn next is returned as it is
RECURSIVE TryPosition(_, _, _, _)
TryPosition(s, recent, size, attempt) ==
    With(DrawPosition(s, size.int + 20), LAMBDA pos :
        IF attempt < 20 /\ Collides(pos.val, recent, size)
        THEN TryPosition(pos.rng, recent, size, attempt + 1)
        ELSE pos)

\* permanentElements.slice(-15)
Recent(elements) == SubSeq(elements, Max(1, Len(elements) - 14), Len(elements))

\* findGoodPosition(size)
findGoodPosition(s, canvas, permanentElements, size) ==
    IF ~canvas THEN [rng |-> s, val |-> [x |-> Whole(500), y |-> Whole(500)]]
    ELSE TryPosition(s, Recent(permanentElements), size, 0)

\* getDataForType(type)
getDataForType(s, type) ==
    CASE type = "shape" -> With(choice(s, SHAPES), LAMBDA c : [rng |-> c.rng, val |-> [shape |-> c.val]])
      [] type = "symbol" -> With(choice(s, SYMBOLS), LAMBDA c : [rng |-> c.rng, val |-> [text |-> c.val]])
      [] type = "word" -> With(choice(s, BABY_WORDS), LAMBDA c : [rng |-> c.rng, val |-> [text |-> c.val]])
      [] type = "animal" -> With(choice(s, ANIMALS), LAMBDA c : [rng |-> c.rng, val |-> [text |-> c.val]])
      [] type = "number" -> With(choice(s, NUMBERS), LAMBDA c : [rng |-> c.rng, val |-> [text |-> c.val]])
      [] OTHER -> [rng |-> s, val |-> NoObject]

\* init(canvas); context is whether canvas.getContext('2d') gives one.
\* startRenderLoop() runs the first render, which changes nothing on the
\* empty engine and requests the next frame
initCanvas(ve, context) ==
    IF ~context THEN [ve EXCEPT !.canvas = TRUE]
    ELSE [ve EXCEPT !.canvas = TRUE, !.ctx = TRUE, !.animationFrameId = TRUE]

\* the newest element is marked instead of the oldest
MarkNewest(elements) ==
    IF Len(elements) >= MAX_PERMANENT_ELEMENTS
    THEN [elements EXCEPT ![Len(elements)].fadingOut = TRUE]
    ELSE elements

\* the oldest element that is not fading is marked, when the list is full
MarkOldest(elements) ==
    IF Len(elements) >= MAX_PERMANENT_ELEMENTS
       /\ \E k \in DOMAIN elements : ~elements[k].fadingOut
    THEN LET oldestNonFading ==
                 CHOOSE k \in DOMAIN elements :
                     /\ ~elements[k].fadingOut
                     /\ \A j \in 1..(k - 1) : elements[j].fadingOut
         IN  [elements EXCEPT ![oldestNonFading].fadingOut = TRUE,
                              ![oldestNonFading].opacity = Opaque]
    ELSE elements

\* addPermanentElement(type, x?, y?) at time t; at is [x, y], or NoObject
\* when the caller gives no position
addPermanentElement(ve, type, at, t) ==
    IF ~ve.canvas THEN ve
    ELSE With(MarkOldest(ve.permanentElements), LAMBDA marked :
         With(range(ve.rng, 40, 120), LAMBDA size :
         With(IF at # NoObject THEN [rng |-> size.rng, val |-> at]
              ELSE findGoodPosition(size.rng, ve.canvas, marked, size.val), LAMBDA pos :
         With(choice(pos.rng, ve.colorScheme.palette), LAMBDA color :
         With(next(color.rng), LAMBDA rotation :
         With(getDataForType(rotation.rng, type), LAMBDA data :
             [ve EXCEPT
                !.rng = data.rng,
                !.elementIdCounter = @ + 1,
                !.permanentElements = Append(marked,
                    [ id |-> ve.elementIdCounter, type |-> type,
                      x |-> pos.val.x, y |-> pos.val.y, color |-> color.val,
                      size |-> size.val, rotation |-> rotation.val, baseScale |-> 1,
                      data |-> data.val, opacity |-> Opaque, fadingOut |-> FALSE,
                      birthTime |-> t ])]))))))

\* the loop of createExplosionParticles from particle i on: particle i
\* leaves (x, y) at angle i / 15 of a turn with the speed drawn
RECURSIVE ExplosionParticlesFrom(_, _, _, _)
ExplosionParticlesFrom(s, pos, i, particles) ==
    IF i >= 15 THEN [rng |-> s, val |-> particles]
    ELSE With(range(s, 2, 6), LAMBDA speed :
             ExplosionParticlesFrom(speed.rng, pos, i + 1,
                 Append(particles, [ x |-> pos.x, y |-> pos.y, angle |-> <<i, 15>>,
                                     speed |-> speed.val, life |-> 1 ])))

\* createExplosionParticles(x, y)
createExplosionParticles(s, pos) == ExplosionParticlesFrom(s, pos, 0, <<>>)

Animations == << "bounce", "move", "spin", "explode" >>

\* animation || this.rng.choice([...])
ChosenAnimation(s, animation) ==
    IF animation # Undefined THEN [rng |-> s, val |-> animation]
    ELSE choice(s, Animations)

\* addAnimatedElement(type, animation?) at time t.  frames counts the
\* per-frame updates render has applied to the element
addAnimatedElement(ve, type, animation, t) ==
    IF ~ve.canvas THEN ve
    ELSE With(IF Len(ve.animatedElements) >= MAX_ANIMATED_ELEMENTS
              THEN Tail(ve.animatedElements) ELSE ve.animatedElements, LAMBDA kept :
         With(range(ve.rng, 50, 150), LAMBDA size :
         With(findGoodPosition(size.rng, ve.canvas, ve.permanentElements, size.val), LAMBDA pos :
         With(ChosenAnimation(pos.rng, animation), LAMBDA chosenAnimation :
         With(choice(chosenAnimation.rng, ve.colorScheme.palette), LAMBDA color :
         With(next(color.rng), LAMBDA rotation :
         With(getDataForType(rotation.rng, type), LAMBDA data :
         With(IF chosenAnimation.val = "explode"
              THEN [rng |-> data.rng, val |-> Whole(2000)]
              ELSE range(data.rng, 3000, 8000), LAMBDA duration :
         With(range(duration.rng, -3, 3), LAMBDA vx :
         With(range(vx.rng, -3, 3), LAMBDA vy :
         With(IF chosenAnimation.val = "explode"
              THEN createExplosionParticles(vy.rng, pos.val)
              ELSE [rng |-> vy.rng, val |-> Undefined], LAMBDA particles :
             [ve EXCEPT
                !.rng = particles.rng,
                !.elementIdCounter = @ + 1,
                !.animatedElements = Append(kept,
                    [ id |-> ve.elementIdCounter, type |-> type,
                      x |-> pos.val.x, y |-> pos.val.y, color |-> color.val,
                      size |-> size.val, rotation |-> rotation.val, baseScale |-> 1,
                      data |-> data.val, animation |-> chosenAnimation.val,
                      startTime |-> t, duration |-> duration.val,
                      velocity |-> [x |-> vx.val, y |-> vy.val],
                      particles |-> particles.val, opacity |-> Opaque,
                      fadingOut |-> FALSE, birthTime |-> t, frames |-> 0 ])])))))))))))

\* element.opacity -= 1 / (FADE_OUT_DURATION / 16.67), not below 0
Fade(element) ==
    IF element.fadingOut
    THEN [element EXCEPT !.opacity = Max(0, @ - FadeStep)]
    ELSE element

\* now - startTime < duration
Running(item, t) ==
    \/ t - item.startTime < item.duration.int
    \/ /\ t - item.startTime = item.duration.int
       /\ item.duration.frac # [hi |-> 0, lo |-> 0]

\* updateAnimatedElements(now): the expired elements are dropped and the
\* others are moved by one frame
updateAnimatedElements(ve, t) ==
    IF ~ve.ctx \/ ~ve.canvas THEN ve
    ELSE With(SelectSeq(ve.animatedElements, LAMBDA e : Running(e, t)), LAMBDA live :
             [ve EXCEPT !.animatedElements =
                 [k \in DOMAIN live |-> [live[k] EXCEPT !.frames = @ + 1]]])

\* a flash is kept through the tick at which its duration has just elapsed
updateMathFlashesAtDuration(ve, t) ==
    IF ~ve.ctx \/ ~ve.canvas THEN ve
    ELSE [ve EXCEPT !.mathFlashes =
             SelectSeq(@, LAMBDA flash : t - flash.startTime <= flash.duration.int)]

\* updateMathFlashes(now)
updateMathFlashes(ve, t) ==
    IF ~ve.ctx \/ ~ve.canvas THEN ve
    ELSE [ve EXCEPT !.mathFlashes = SelectSeq(@, LAMBDA flash : Running(flash, t))]

\* render() with the two passes in the other order: the faded elements are
\* filtered out first, and the fading ones are aged after
renderFilterFirst(ve, t) ==
    IF ~ve.ctx \/ ~ve.canvas THEN ve
    ELSE With([ve EXCEPT !.permanentElements =
                   [k \in DOMAIN SelectSeq(@, LAMBDA e : e.opacity > 0) |->
                       Fade(SelectSeq(@, LAMBDA e : e.opacity > 0)[k])]],
              LAMBDA faded :
         With(updateAnimatedElements(faded, t), LAMBDA moved :
             [updateMathFlashes(moved, t) EXCEPT !.animationFrameId = TRUE]))

\* render() at time t
render(ve, t) ==
    IF ~ve.ctx \/ ~ve.canvas THEN ve
    ELSE With([ve EXCEPT !.permanentElements =
                   SelectSeq([k \in DOMAIN @ |-> Fade(@[k])], LAMBDA e : e.opacity > 0)],
              LAMBDA faded :
         With(updateAnimatedElements(faded, t), LAMBDA moved :
             [updateMathFlashes(moved, t) EXCEPT !.animationFrameId = TRUE]))

\* setBackgroundColor(color)
setBackgroundColor(ve, color) == [ve EXCEPT !.backgroundColor = color]

\* |v - centre| for a length v and a whole centre: its whole part and its
\* fraction, in units of 2^-32
Away(v, centre) ==
    IF v.int >= centre THEN [whole |-> v.int - centre, frac |-> v.frac]
    ELSE IF v.frac = [hi |-> 0, lo |-> 0] THEN [whole |-> centre - v.int, frac |-> v.frac]
    ELSE [ whole |-> centre - v.int - 1,
           frac |-> [ hi |-> IF v.frac.lo = 0 THEN Limb - v.frac.hi ELSE Limb - 1 - v.frac.hi,
                      lo |-> (Limb - v.frac.lo) % Limb ] ]

FracMag(frac) == [k \in Limbs |-> CASE k = 1 -> frac.lo [] k = 2 -> frac.hi [] OTHER -> 0]

ShiftLimbs(mag, j) == [k \in Limbs |-> IF k > j THEN mag[k - j] ELSE 0]

\* mag * n for 0 <= n < 2^16
MagMul16(mag, n) == MagAdd(MagMul(mag, n % 256), MagMul(MagMul(mag, n \div 256), 256))

\* a * a - a.whole * a.whole, in units of 2^-64
SquareRest(a) ==
    MagAdd(ShiftLimbs(MagMul(FracMag(a.frac), 2 * a.whole), 2),
           MagAdd(MagMul16(FracMag(a.frac), a.frac.lo),
                  ShiftLimbs(MagMul16(FracMag(a.frac), a.frac.hi), 1)))

\* Math.sqrt(dx ** 2 + dy ** 2) > radius, for a whole radius.  The test is
\* made on the reals: on the canvas of CONFIG the doubles of the source
\* give the same answer for every pair of draws of the generator.
DistanceBeyond(dx, dy, radius) ==
    LET short == radius * radius - dx.whole * dx.whole - dy.whole * dy.whole
    IN  IF short < 0 THEN TRUE
        ELSE IF short >= Limb THEN FALSE
        ELSE MagLess(ShiftLimbs(Integer(short).mag, 4),
                     MagAdd(SquareRest(dx), SquareRest(dy)))

\* the origin is drawn once, wherever it falls
TryOriginOnce(s, attempts) ==
    With(DrawPosition(s, 100), LAMBDA origin :
        [rng |-> origin.rng, val |-> origin.val, attempts |-> 0])

\* the do ... while of burstParticles: an origin is drawn until it is
\* farther from the centre than a quarter of the canvas, 20 times at
\* most; attempts is the counter of the loop when it is left
RECURSIVE TryOrigin(_, _)
TryOrigin(s, attempts) ==
    With(DrawPosition(s, 100), LAMBDA origin :
        IF DistanceBeyond(Away(origin.val.x, CANVAS_WIDTH \div 2),
                          Away(origin.val.y, CANVAS_HEIGHT \div 2),
                          Min(CANVAS_WIDTH, CANVAS_HEIGHT) \div 4)
        THEN [rng |-> origin.rng, val |-> origin.val, attempts |-> attempts]
        ELSE IF attempts + 1 >= 20
        THEN [rng |-> origin.rng, val |-> origin.val, attempts |-> attempts + 1]
        ELSE TryOrigin(origin.rng, attempts + 1))

themes == << "animal", "shape", "symbol", "word", "number" >>

\* element i of a burst of burstCount elements around origin
BurstElement(s, id, palette, origin, type, burstCount, i, t) ==
    With(range(s, 80, 200), LAMBDA distance :
    With(range(distance.rng, 40, 100), LAMBDA size :
    With(choice(size.rng, palette), LAMBDA color :
    With(next(color.rng), LAMBDA rotation :
    With(getDataForType(rotation.rng, type), LAMBDA data :
    With(choice(data.rng, << "bounce", "spin", "move" >>), LAMBDA animation :
    With(range(animation.rng, 4000, 7000), LAMBDA duration :
    With(range(duration.rng, -2, 2), LAMBDA vx :
    With(range(vx.rng, -2, 2), LAMBDA vy :
        [ rng |-> vy.rng,
          val |-> [ id |-> id, type |-> type,
                    x |-> [origin |-> origin.x, angle |-> <<i, burstCount>>,
                           distance |-> distance.val],
                    y |-> [origin |-> origin.y, angle |-> <<i, burstCount>>,
                           distance |-> distance.val],
                    color |-> color.val, size |-> size.val,
                    rotation |-> rotation.val, baseScale |-> 1, data |-> data.val,
                    animation |-> animation.val, startTime |-> t,
                    duration |-> duration.val,
                    velocity |-> [x |-> vx.val, y |-> vy.val],
                    particles |-> Undefined, opacity |-> Opaque,
                    fadingOut |-> FALSE, birthTime |-> t, frames |-> 0 ] ])))))))))

\* the loop runs twice as long
BelowTwice(i, length) == i < 2 * length.int

\* i < burstCount, for a whole i
Below(i, length) ==
    i < length.int \/ (i = length.int /\ length.frac # [hi |-> 0, lo |-> 0])

\* the for loop of burstParticles from element i on
\* every element of the burst is given the id the counter shows when the
\* burst begins, and the counter moves once
RECURSIVE BurstFromOneId(_, _, _, _, _, _)
BurstFromOneId(ve, origin, type, burstCount, i, t) ==
    IF ~Below(i, burstCount) THEN [ve EXCEPT !.elementIdCounter = @ + 1]
    ELSE With(BurstElement(ve.rng, ve.elementIdCounter, ve.colorScheme.palette,
                           origin, type, burstCount, i, t), LAMBDA element :
             BurstFromOneId([ve EXCEPT !.rng = element.rng,
                                       !.animatedElements = Append(@, element.val)],
                            origin, type, burstCount, i + 1, t))

RECURSIVE BurstFrom(_, _, _, _, _, _)
BurstFrom(ve, origin, type, burstCount, i, t) ==
    IF ~Below(i, burstCount) THEN ve
    ELSE With(BurstElement(ve.rng, ve.elementIdCounter, ve.colorScheme.palette,
                           origin, type, burstCount, i, t), LAMBDA element :
             BurstFrom([ve EXCEPT !.rng = element.rng,
                                  !.elementIdCounter = @ + 1,
                                  !.animatedElements = Append(@, element.val)],
                       origin, type, burstCount, i + 1, t))

\* burstParticles(_count?) at time t; the count given is not read
burstParticles(ve, t) ==
    IF ~ve.canvas THEN ve
    ELSE With(TryOrigin(ve.rng, 0), LAMBDA origin :
         With(choice(origin.rng, themes), LAMBDA theme :
         With(range(theme.rng, 12, 18), LAMBDA burstCount :
             BurstFrom([ve EXCEPT !.rng = burstCount.rng],
                       origin.val, theme.val, burstCount.val, 0, t))))

\* startDrawing(x, y)
startDrawing(ve, point) ==
    With(choice(ve.rng, ve.colorScheme.palette), LAMBDA color :
    With(range(color.rng, 3, 12), LAMBDA thickness :
    With(choice(thickness.rng, << "solid", "dashed", "dotted", "wavy" >>), LAMBDA pattern :
        [ve EXCEPT
            !.rng = pattern.rng,
            !.currentDrawStyle = [color |-> color.val, thickness |-> thickness.val,
                                  pattern |-> pattern.val],
            !.currentStroke = [points |-> <<point>>, color |-> color.val,
                               thickness |-> thickness.val, pattern |-> pattern.val],
            !.isDrawing = TRUE])))

\* getIsDrawing()
getIsDrawing(ve) == ve.isDrawing

\* continueDrawing(x, y)
continueDrawing(ve, point) ==
    IF ~ve.isDrawing \/ ve.currentStroke = NoObject THEN ve
    ELSE [ve EXCEPT !.currentStroke.points = Append(@, point)]

\* endDrawing() without the length test: a stroke of one point is kept too
endDrawingKeepingDots(ve) ==
    IF ~ve.isDrawing \/ ve.currentStroke = NoObject THEN ve
    ELSE [ve EXCEPT
            !.completedStrokes =
                IF Len(@) + 1 > 50 THEN Tail(Append(@, ve.currentStroke))
                ELSE Append(@, ve.currentStroke),
            !.currentStroke = NoObject,
            !.isDrawing = FALSE]

\* endDrawing() without the shift: the history is never shortened
endDrawingUncapped(ve) ==
    IF ~ve.isDrawing \/ ve.currentStroke = NoObject THEN ve
    ELSE [ve EXCEPT
            !.completedStrokes =
                IF Len(ve.currentStroke.points) > 1
                THEN Append(@, ve.currentStroke)
                ELSE @,
            !.currentStroke = NoObject,
            !.isDrawing = FALSE]

\* drawStrokes(): the strokes handed to drawStroke, in the order of the calls
drawStrokes(ve) == ve.completedStrokes

\* endDrawing()
endDrawing(ve) ==
    IF ~ve.isDrawing \/ ve.currentStroke = NoObject THEN ve
    ELSE [ve EXCEPT
            !.completedStrokes =
                IF Len(ve.currentStroke.points) > 1
                THEN IF Len(@) + 1 > 50 THEN Tail(Append(@, ve.currentStroke))
                     ELSE Append(@, ve.currentStroke)
                ELSE @,
            !.currentStroke = NoObject,
            !.isDrawing = FALSE]

\* stopRenderLoop()
stopRenderLoop(ve) == [ve EXCEPT !.animationFrameId = FALSE]

\* VisualEngine.dispose()
VisualEngine_dispose(ve) ==
    [stopRenderLoop(ve) EXCEPT !.permanentElements = <<>>, !.animatedElements = <<>>]

\* flashMath() at time t
flashMath(ve, t) ==
    IF ~ve.canvas THEN ve
    ELSE With(range(ve.rng, 1, 10), LAMBDA num1 :
         With(range(num1.rng, 1, 10), LAMBDA num2 :
         With(choice(num2.rng, << "+", "-" >>), LAMBDA operation :
         With(range(operation.rng, CANVAS_WIDTH \div 10, (9 * CANVAS_WIDTH) \div 10), LAMBDA x :
         With(range(x.rng, CANVAS_HEIGHT \div 10, (9 * CANVAS_HEIGHT) \div 10), LAMBDA y :
         With(choice(y.rng, ve.colorScheme.palette), LAMBDA color :
         With([ id |-> ve.elementIdCounter,
                equation |->
                    IF operation.val = "+"
                    THEN ToString(num1.val.int) \o " + " \o ToString(num2.val.int)
                    ELSE ToString(Max(num1.val.int, num2.val.int)) \o " - "
                         \o ToString(Min(num1.val.int, num2.val.int)),
                result |->
                    IF operation.val = "+"
                    THEN ToString(num1.val.int + num2.val.int)
                    ELSE ToString(Max(num1.val.int, num2.val.int)
                                  - Min(num1.val.int, num2.val.int)),
                x |-> x.val, y |-> y.val, color |-> color.val,
                startTime |-> t, duration |-> Whole(3000) ], LAMBDA mathFlash :
             [ve EXCEPT
                !.rng = color.rng,
                !.elementIdCounter = @ + 1,
                !.mathFlashes = IF Len(@) + 1 > 5 THEN Tail(Append(@, mathFlash))
                                ELSE Append(@, mathFlash)])))))))

----------------------------------------------------------------------------
(* The VisualEngine of a session and the calls made on it                  *)

NewVisualCount == [adds |-> 0, animated |-> 0, bursts |-> 0, draws |-> 0, flashes |-> 0]

\* JamSession.tsx: colorScheme = getRandomScheme(new SeededRandom(seed)),
\* new VisualEngine(seed, colorScheme)
VisualConstructFrom(seeds) ==
    /\ \E seed \in seeds :
           visual = NewVisualEngine(seed, getRandomScheme(SeededRandom(seed)).val, 0)
    /\ visualLast = [op |-> "new", args |-> <<>>]
    /\ visualCount = NewVisualCount
    /\ now = 0

VisualConstruct == VisualConstructFrom(Seeds)

\* visualEngine.init(canvas), which the session calls once
VisualInit ==
    /\ ~visual.canvas
    /\ \E context \in BOOLEAN : visual' = initCanvas(visual, context)
    /\ visualLast' = [op |-> "init", args |-> <<>>]
    /\ UNCHANGED <<visualCount, now>>

ElementTypes == << "shape", "symbol", "word", "animal", "number" >>

\* addPermanentElement(type), which the session calls once init has
\* returned: the calls go through the element types in turn
AddPermanentElement ==
    /\ visual.canvas
    /\ visualCount.adds < MAX_PERMANENT_ELEMENTS + MaxOver
    /\ \E type \in {ElementTypes[(visualCount.adds % Len(ElementTypes)) + 1]} :
           /\ visual' = addPermanentElement(visual, type, NoObject, now)
           /\ visualLast' = [op |-> "addPermanentElement", args |-> <<type>>]
    /\ visualCount' = [visualCount EXCEPT !.adds = @ + 1]
    /\ UNCHANGED now

AddAnimatedElement(type, animation) ==
    /\ visualCount.animated < MaxAnimatedAdds
    /\ visual' = addAnimatedElement(visual, type, animation, now)
    /\ visualLast' = [op |-> "addAnimatedElement", args |-> <<type, animation>>]
    /\ visualCount' = [visualCount EXCEPT !.animated = @ + 1]
    /\ UNCHANGED now

BurstParticles ==
    /\ visualCount.bursts < MaxBursts
    /\ visual' = burstParticles(visual, now)
    /\ visualLast' = [op |-> "burstParticles", args |-> <<>>]
    /\ visualCount' = [visualCount EXCEPT !.bursts = @ + 1]
    /\ UNCHANGED now

\* flashMath(), which the session calls for a math-flash key
FlashMath ==
    /\ visualCount.flashes < MaxFlashes
    /\ visual' = flashMath(visual, now)
    /\ visualLast' = [op |-> "flashMath", args |-> <<>>]
    /\ visualCount' = [visualCount EXCEPT !.flashes = @ + 1]
    /\ UNCHANGED now

\* one tick of the render loop, once init has started it
Render ==
    /\ visual.animationFrameId
    /\ \A k \in DOMAIN visual.animatedElements :
           Running(visual.animatedElements[k], now) =>
               visual.animatedElements[k].frames < MaxFrames
    /\ visual' = render(visual, now)
    /\ visualLast' = [op |-> "render", args |-> <<>>]
    /\ UNCHANGED <<visualCount, now>>

\* time passes between two frames
FrameClock ==
    /\ now + FrameGap <= MaxFrameClock
    /\ now' = now + FrameGap
    /\ UNCHANGED visualVars

\* the places of the pointer the drawing calls are given
Points == { [x |-> 100, y |-> 100], [x |-> 300, y |-> 200] }

StartDrawing(point) ==
    /\ visualCount.draws < MaxDrawCalls
    /\ visual' = startDrawing(visual, point)
    /\ visualLast' = [op |-> "startDrawing", args |-> <<point>>]
    /\ visualCount' = [visualCount EXCEPT !.draws = @ + 1]
    /\ UNCHANGED now

\* JamSession.tsx, handleSpaceDown: the space key starts a stroke at the
\* pointer unless one is in progress
HandleSpaceDown(point) ==
    /\ visualCount.draws < MaxDrawCalls
    /\ visual' = IF ~getIsDrawing(visual) THEN startDrawing(visual, point) ELSE visual
    /\ visualLast' = [op |-> "handleSpaceDown", args |-> <<point>>]
    /\ visualCount' = [visualCount EXCEPT !.draws = @ + 1]
    /\ UNCHANGED now

ContinueDrawing(point) ==
    /\ visualCount.draws < MaxDrawCalls
    /\ visual' = continueDrawing(visual, point)
    /\ visualLast' = [op |-> "continueDrawing", args |-> <<point>>]
    /\ visualCount' = [visualCount EXCEPT !.draws = @ + 1]
    /\ UNCHANGED now

EndDrawing ==
    /\ visualCount.draws < MaxDrawCalls
    /\ visual' = endDrawing(visual)
    /\ visualLast' = [op |-> "endDrawing", args |-> <<>>]
    /\ visualCount' = [visualCount EXCEPT !.draws = @ + 1]
    /\ UNCHANGED now

----------------------------------------------------------------------------
(* SpecCanvas: the permanent elements under addPermanentElement and the    *)
(* render loop.  The loop keeps running: a frame that changes the canvas   *)
(* is drawn eventually.                                                    *)

CanvasNext ==
    \/ VisualInit
    \/ AddPermanentElement
    \/ Render

\* the canvas of the session with the smallest seed
FirstSeed == { seed \in Seeds : \A other \in Seeds : seed <= other }

SpecCanvasInit == VisualConstructFrom(FirstSeed) /\ RngIdle /\ MapIdle /\ AudioIdle /\ SessionIdle
SpecCanvasNext == CanvasNext /\ UNCHANGED <<rngVars, mapVars, audioVars, sessionVars>>
SpecCanvas ==
    SpecCanvasInit /\ [][SpecCanvasNext]_vars /\ WF_vars(Render /\ SpecCanvasNext)

\* the permanent elements, the ids on the canvas, and the number of
\* elements added beyond the capacity
permanent == visual.permanentElements
PermanentIds == { permanent[k].id : k \in DOMAIN permanent }
Over == Max(0, visual.elementIdCounter - MAX_PERMANENT_ELEMENTS)

\* the elements added beyond the capacity have marked the oldest, and them
\* only: an element on the canvas is fading exactly if it is one of the
\* Over oldest, and the others are all there at full opacity
OldestMarked ==
    /\ Over..(visual.elementIdCounter - 1) \subseteq PermanentIds
    /\ \A k \in DOMAIN permanent :
           IF permanent[k].id < Over
           THEN permanent[k].fadingOut
           ELSE ~permanent[k].fadingOut /\ permanent[k].opacity = Opaque

\* an element leaves the canvas only in a frame, and only when it is
\* fading; a frame brings every fading element nearer to its removal
FadingLeave ==
    /\ \A k \in DOMAIN permanent :
           permanent[k].id \notin PermanentIds' =>
               permanent[k].fadingOut /\ visualLast'.op = "render"
    /\ visualLast'.op = "render" =>
           \A k \in DOMAIN permanent :
               permanent[k].fadingOut =>
                   \/ permanent[k].id \notin PermanentIds'
                   \/ \E j \in DOMAIN permanent' :
                          /\ permanent'[j].id = permanent[k].id
                          /\ permanent'[j].opacity = permanent[k].opacity - FadeStep

\* element id is on the canvas, fading, and the render loop runs
FadingOn(id) ==
    /\ visual.animationFrameId
    /\ \E k \in DOMAIN permanent : permanent[k].id = id /\ permanent[k].fadingOut

\* C5: from an empty canvas, after 100 + k addPermanentElement calls with
\* render ticks interleaved in any way, exactly the k oldest elements have
\* been marked fading, every fading element is eventually removed by later
\* render ticks, and the 100 most recent elements are on the canvas, not
\* fading, at opacity 1.
C5_OldestFadeNewestStay ==
    /\ []OldestMarked
    /\ [][FadingLeave]_vars
    /\ \A id \in 0..(MaxOver - 1) : FadingOn(id) ~> (id \notin PermanentIds)

\* all the elements beyond the capacity were added, the oldest have faded
\* away in the frames since, and the capacity is what is left
C5_Witness ==
    /\ visual.elementIdCounter = MAX_PERMANENT_ELEMENTS + MaxOver
    /\ visual.animationFrameId
    /\ Len(permanent) = MAX_PERMANENT_ELEMENTS
    /\ visualLast.op = "render"

\* C22: at every draw pass the opacity of each permanent element is in
\* [0,1], and no element of opacity 0 is drawn: the tick that brings an
\* element to 0 removes it before its draw pass.  The draw pass of a tick
\* draws the list the tick leaves.
C22_NothingDrawnAtZeroOpacity ==
    [][ visualLast'.op = "render" =>
          \A k \in DOMAIN permanent' :
              /\ permanent'[k].opacity > 0
              /\ permanent'[k].opacity <= Opaque ]_vars

\* a tick has removed the oldest element while another one is still fading
C22_Witness ==
    /\ visualLast.op = "render"
    /\ visual.elementIdCounter > MAX_PERMANENT_ELEMENTS
    /\ 0 \notin PermanentIds
    /\ \E k \in DOMAIN permanent :
           permanent[k].fadingOut /\ permanent[k].opacity < Opaque

----------------------------------------------------------------------------
(* SpecAnimated: the animated elements under addAnimatedElement,           *)
(* burstParticles and the render loop                                      *)

AnimatedTypes == { "animal" }
AnimationArgs == { Undefined, "explode" }

AnimatedNext ==
    \/ VisualInit
    \/ \E type \in AnimatedTypes, animation \in AnimationArgs :
           AddAnimatedElement(type, animation)
    \/ BurstParticles
    \/ Render
    \/ FrameClock

SpecAnimatedInit == VisualConstruct /\ RngIdle /\ MapIdle /\ AudioIdle /\ SessionIdle
SpecAnimatedNext == AnimatedNext /\ UNCHANGED <<rngVars, mapVars, audioVars, sessionVars>>
SpecAnimated == SpecAnimatedInit /\ [][SpecAnimatedNext]_vars

\* C6: in every state reachable by addAnimatedElement, burstParticles and
\* render ticks, there are at most MAX_ANIMATED_ELEMENTS animated elements.
C6_AnimatedWithinCap == Len(visual.animatedElements) <= MAX_ANIMATED_ELEMENTS

----------------------------------------------------------------------------
(* SpecBursts: bursts on a canvas that is empty or holds animated          *)
(* elements, for the seeds of Seeds and for the seed whose first origin    *)
(* takes the most draws of all the seeds a session can have                *)

RetrySeed == 387496
BurstSeeds == Seeds \cup {RetrySeed}

BurstsNext ==
    \/ VisualInit
    \/ \E type \in AnimatedTypes, animation \in AnimationArgs :
           AddAnimatedElement(type, animation)
    \/ BurstParticles

SpecBurstsInit == VisualConstructFrom(BurstSeeds) /\ RngIdle /\ MapIdle /\ AudioIdle /\ SessionIdle
SpecBurstsNext == BurstsNext /\ UNCHANGED <<rngVars, mapVars, audioVars, sessionVars>>
SpecBursts == SpecBurstsInit /\ [][SpecBurstsNext]_vars

\* the elements a call has added: those with the ids given since
AddedSince(before, after) ==
    { after.animatedElements[k] : k \in { j \in DOMAIN after.animatedElements :
          after.animatedElements[j].id >= before.elementIdCounter } }

\* the origin is farther from the centre than 25% of min(width, height)
OutsideCentre(x, y) ==
    DistanceBeyond(Away(x, CANVAS_WIDTH \div 2), Away(y, CANVAS_HEIGHT \div 2),
                   Min(CANVAS_WIDTH, CANVAS_HEIGHT) \div 4)

WithIds(from, to) ==
    { visual.animatedElements[k] : k \in { j \in DOMAIN visual.animatedElements :
          visual.animatedElements[j].id \in from..(to - 1) } }

\* C27: each burstParticles call adds between 12 and 18 animated
\* elements, and all the elements of one burst are of one kind, a theme
\* of the list.
C27_BurstOfOneKind ==
    [][ (visualLast'.op = "burstParticles" /\ visual.canvas) =>
          /\ Cardinality(AddedSince(visual, visual')) \in 12..18
          /\ Len(visual'.animatedElements)
                 = Len(visual.animatedElements) + Cardinality(AddedSince(visual, visual'))
          /\ \E type \in Range(themes) :
                 \A e \in AddedSince(visual, visual') : e.type = type ]_vars

\* two bursts were made on an empty canvas, of different sizes and of
\* different kinds
C27_Witness ==
    /\ visualLast.op = "burstParticles"
    /\ visualCount.bursts = 2
    /\ visualCount.animated = 0
    /\ \E first \in 12..18 :
           /\ visual.elementIdCounter - first \in (12..18) \ {first}
           /\ \E a, b \in Range(themes) :
                  /\ a # b
                  /\ \A e \in WithIds(0, first) : e.type = a
                  /\ \A e \in WithIds(first, visual.elementIdCounter) : e.type = b
                  /\ Cardinality(WithIds(0, visual.elementIdCounter)) = visual.elementIdCounter

----------------------------------------------------------------------------
(* SpecOverlay: animated elements and math flashes under the render loop   *)
(* and a clock that reaches the durations of an explosion and of a math    *)
(* flash exactly                                                           *)

OverlayClock ==
    /\ now + OverlayStep <= MaxOverlayClock
    /\ now' = now + OverlayStep
    /\ UNCHANGED visualVars

OverlayNext ==
    \/ VisualInit
    \/ \E type \in AnimatedTypes, animation \in AnimationArgs :
           AddAnimatedElement(type, animation)
    \/ FlashMath
    \/ Render
    \/ OverlayClock

SpecOverlayInit ==
    VisualConstructFrom(FirstSeed) /\ RngIdle /\ MapIdle /\ AudioIdle /\ SessionIdle
SpecOverlayNext == OverlayNext /\ UNCHANGED <<rngVars, mapVars, audioVars, sessionVars>>
SpecOverlay == SpecOverlayInit /\ [][SpecOverlayNext]_vars

\* now - startTime >= duration, for a whole number of milliseconds elapsed
\* and a duration with a fraction
Elapsed(item) ==
    \/ now - item.startTime > item.duration.int
    \/ /\ now - item.startTime = item.duration.int
       /\ item.duration.frac.hi = 0
       /\ item.duration.frac.lo = 0

Ids(items) == [k \in DOMAIN items |-> items[k].id]

\* C33: at each render tick, every animated element and every overlay flash
\* whose elapsed time (now - startTime) is at least its duration is removed
\* before being drawn, and the tick removes no animated element or overlay
\* flash whose elapsed time is below its duration.
C33_ExpiredRemovedOthersKept ==
    [][ (visualLast'.op = "render" /\ now' = now) =>
          /\ Ids(visual'.animatedElements) =
                 Ids(SelectSeq(visual.animatedElements, LAMBDA e : ~Elapsed(e)))
          /\ \A k \in DOMAIN visual'.animatedElements :
                 \E j \in DOMAIN visual.animatedElements :
                     /\ visual.animatedElements[j].id = visual'.animatedElements[k].id
                     /\ visual'.animatedElements[k].frames =
                            visual.animatedElements[j].frames + 1
          /\ visual'.mathFlashes =
                 SelectSeq(visual.mathFlashes, LAMBDA flash : ~Elapsed(flash)) ]_vars

\* a tick has just run at the instant a flash or an explosion reached its
\* duration: it is gone, and an element or flash that began later is kept
C33_Witness ==
    /\ visualLast.op = "render"
    /\ now = 3000
    /\ visualCount.flashes = 2
    /\ Len(visual.mathFlashes) = 1
    /\ visual.mathFlashes[1].startTime > 0
    /\ visualCount.animated = 2
    /\ Len(visual.animatedElements) = 1
    /\ visual.animatedElements[1].frames = 1

----------------------------------------------------------------------------
(* SpecIds: the four kinds of elements one counter numbers, under the      *)
(* render loop and a clock that lets flashes, explosions and bursts expire *)

IdsNext ==
    \/ VisualInit
    \/ visualCount.adds < MaxIdAdds /\ AddPermanentElement
    \/ \E type \in AnimatedTypes :
           visualCount.animated < MaxIdAdds /\ AddAnimatedElement(type, "explode")
    \/ BurstParticles
    \/ visualCount.flashes < MaxIdAdds /\ FlashMath
    \/ Render
    \/ now = 0 /\ FrameClock

SpecIdsInit ==
    VisualConstructFrom(FirstSeed) /\ RngIdle /\ MapIdle /\ AudioIdle /\ SessionIdle
SpecIdsNext == IdsNext /\ UNCHANGED <<rngVars, mapVars, audioVars, sessionVars>>
SpecIds == SpecIdsInit /\ [][SpecIdsNext]_vars

\* the ids of the elements and flashes an engine holds
IdsOf(ve) ==
    { ve.permanentElements[k].id : k \in DOMAIN ve.permanentElements }
    \cup { ve.animatedElements[k].id : k \in DOMAIN ve.animatedElements }
    \cup { ve.mathFlashes[k].id : k \in DOMAIN ve.mathFlashes }

Increasing(ids) == \A j, k \in DOMAIN ids : j < k => ids[j] < ids[k]

\* C38: element ids come from one counter shared by permanent elements,
\* animated elements, burst elements and overlay flashes: across any
\* sequence of add operations every id is unique and ids strictly increase
\* in creation order, also after elements have been evicted or expired.
C38_IdsUniqueAndIncreasing ==
    /\ [](/\ Cardinality(IdsOf(visual)) =
                Len(visual.permanentElements) + Len(visual.animatedElements)
                + Len(visual.mathFlashes)
          /\ Increasing(Ids(visual.permanentElements))
          /\ Increasing(Ids(visual.animatedElements))
          /\ Increasing(Ids(visual.mathFlashes))
          /\ \A id \in IdsOf(visual) : id < visual.elementIdCounter)
    /\ [][ /\ visual'.elementIdCounter >= visual.elementIdCounter
           /\ IdsOf(visual') \ IdsOf(visual) =
                  visual.elementIdCounter..(visual'.elementIdCounter - 1) ]_vars

\* a flash has just been given the newest id while a permanent element and
\* an animated element are held, after elements with smaller ids have gone
C38_Witness ==
    /\ visualLast.op = "flashMath"
    /\ visual.mathFlashes # <<>>
    /\ visual.mathFlashes[Len(visual.mathFlashes)].id = visual.elementIdCounter - 1
    /\ visual.permanentElements # <<>>
    /\ visual.animatedElements # <<>>
    /\ Len(visual.animatedElements) >= MAX_ANIMATED_ELEMENTS
    /\ visualCount.animated = MaxIdAdds
    /\ visual.elementIdCounter - Cardinality(IdsOf(visual)) >= 2
    /\ now = FrameGap

----------------------------------------------------------------------------
(* SpecPlacement: a caller places permanent elements where it wants them,  *)
(* addPermanentElement(type, x, y), and animated elements are added, for   *)
(* which findGoodPosition looks for a place among the permanent ones       *)

\* the places given, in the order of the calls
Places ==
    << <<1584, 1858>>, <<184, 241>>, <<1526, 848>>, <<1016, 313>>, <<1537, 405>>,
       <<1354, 983>>, <<428, 419>>, <<1348, 1684>>, <<659, 325>>, <<539, 1186>>,
       <<1662, 1450>>, <<1875, 867>>, <<1861, 287>>, <<796, 611>>, <<975, 1324>> >>

PlaceElement ==
    /\ visual.canvas
    /\ visualCount.adds < Len(Places)
    /\ \E at \in { [ x |-> Whole(Places[visualCount.adds + 1][1]),
                      y |-> Whole(Places[visualCount.adds + 1][2]) ] } :
           /\ visual' = addPermanentElement(visual, "shape", at, now)
           /\ visualLast' = [op |-> "addPermanentElement", args |-> <<"shape", at>>]
    /\ visualCount' = [visualCount EXCEPT !.adds = @ + 1]
    /\ UNCHANGED now

PlacementNext ==
    \/ VisualInit
    \/ PlaceElement
    \/ \E type \in AnimatedTypes, animation \in AnimationArgs :
           AddAnimatedElement(type, animation)

SpecPlacementInit == VisualConstructFrom(FirstSeed) /\ RngIdle /\ MapIdle /\ AudioIdle /\ SessionIdle
SpecPlacementNext == PlacementNext /\ UNCHANGED <<rngVars, mapVars, audioVars, sessionVars>>
SpecPlacement == SpecPlacementInit /\ [][SpecPlacementNext]_vars

\* the position as stated: candidates are drawn, 20 at most, and the
\* first that collides with none of the recent elements is returned, or
\* the 20th when all collide; drawn is the number of candidates so far
RECURSIVE StatedPosition(_, _, _, _)
StatedPosition(s, recent, size, drawn) ==
    With(DrawPosition(s, size.int + 20), LAMBDA pos :
        IF drawn + 1 < 20 /\ Collides(pos.val, recent, size)
        THEN StatedPosition(pos.rng, recent, size, drawn + 1)
        ELSE pos)

\* C28: findGoodPosition draws 20 candidate positions at most: it returns
\* the first candidate that collides with none of the 15 most recent
\* permanent elements, and the last one drawn when all 20 collide, and
\* takes nothing more from the generator.
C28_AtMostTwentyCandidates ==
    [][ (visualLast'.op = "addAnimatedElement" /\ visual.canvas) =>
          LET size == range(visual.rng, 50, 150)
              stated == StatedPosition(size.rng, Recent(visual.permanentElements),
                                       size.val, 0)
              added == visual'.animatedElements[Len(visual'.animatedElements)]
          IN  /\ findGoodPosition(size.rng, visual.canvas, visual.permanentElements,
                                   size.val) = stated
              /\ added.x = stated.val.x
              /\ added.y = stated.val.y ]_vars

----------------------------------------------------------------------------
(* SpecDrawing: the stroke in progress under the drawing calls             *)

DrawingNext ==
    \/ VisualInit
    \/ \E point \in Points : StartDrawing(point)
    \/ \E point \in Points : HandleSpaceDown(point)
    \/ \E point \in Points : ContinueDrawing(point)
    \/ EndDrawing

SpecDrawingInit == VisualConstruct /\ RngIdle /\ MapIdle /\ AudioIdle /\ SessionIdle
SpecDrawingNext == DrawingNext /\ UNCHANGED <<rngVars, mapVars, audioVars, sessionVars>>
SpecDrawing == SpecDrawingInit /\ [][SpecDrawingNext]_vars

\* C10: a startDrawing call made while a stroke is in progress changes
\* nothing: the points and the style of the stroke, the drawing flag, the
\* stroke history and the state of the generator are as before.
C10_StartWhileDrawingIsNoOp ==
    [][ visual.isDrawing /\ visualLast'.op = "startDrawing" =>
          /\ visual'.currentStroke = visual.currentStroke
          /\ visual'.currentDrawStyle = visual.currentDrawStyle
          /\ visual'.isDrawing = visual.isDrawing
          /\ visual'.completedStrokes = visual.completedStrokes
          /\ visual'.rng = visual.rng ]_vars

\* C11: continueDrawing and endDrawing called while idle change nothing
\* of the engine; endDrawing called while drawing leaves the engine idle
\* with no stroke in progress, and the stroke is the newest entry of the
\* history exactly when it has 2 points or more: a stroke of one point
\* leaves the history as it was.
C11_EndDrawingCommitsOrDiscards ==
    [][ /\ ( /\ visualLast'.op \in { "continueDrawing", "endDrawing" }
             /\ ~visual.isDrawing ) => visual' = visual
        /\ ( visualLast'.op = "endDrawing" /\ visual.isDrawing ) =>
             /\ ~visual'.isDrawing
             /\ visual'.currentStroke = NoObject
             /\ IF Len(visual.currentStroke.points) >= 2
                THEN /\ visual'.completedStrokes # <<>>
                     /\ visual'.completedStrokes[Len(visual'.completedStrokes)]
                            = visual.currentStroke
                     /\ visual'.completedStrokes \in
                            { Append(visual.completedStrokes, visual.currentStroke),
                              Tail(Append(visual.completedStrokes, visual.currentStroke)) }
                ELSE visual'.completedStrokes = visual.completedStrokes ]_vars

\* an endDrawing call has committed a stroke of two points
C11_Witness ==
    /\ visualLast.op = "endDrawing"
    /\ ~visual.isDrawing
    /\ visual.currentStroke = NoObject
    /\ Len(visual.completedStrokes) = 1
    /\ Len(visual.completedStrokes[1].points) = 2

----------------------------------------------------------------------------
(* SpecStrokes: the stroke history under whole strokes, one after the      *)
(* other: the space key goes down, the pointer moves, the key goes up,     *)
(* with render ticks in between                                            *)

MaxStrokes == 52
MAX_COMPLETED_STROKES == 50

\* the place of the pointer at the n-th drawing call
StrokePoint(n) == [x |-> (10 * n) % CANVAS_WIDTH, y |-> 100]

StrokeDown ==
    /\ ~visual.isDrawing
    /\ visualCount.draws < 3 * MaxStrokes
    /\ visual' = startDrawing(visual, StrokePoint(visualCount.draws))
    /\ visualLast' = [op |-> "startDrawing", args |-> <<>>]
    /\ visualCount' = [visualCount EXCEPT !.draws = @ + 1]
    /\ UNCHANGED now

StrokeMove ==
    /\ visual.isDrawing
    /\ Len(visual.currentStroke.points) < 2
    /\ visual' = continueDrawing(visual, StrokePoint(visualCount.draws))
    /\ visualLast' = [op |-> "continueDrawing", args |-> <<>>]
    /\ visualCount' = [visualCount EXCEPT !.draws = @ + 1]
    /\ UNCHANGED now

StrokeUp ==
    /\ visual.isDrawing
    /\ Len(visual.currentStroke.points) >= 2
    /\ visual' = endDrawing(visual)
    /\ visualLast' = [op |-> "endDrawing", args |-> <<>>]
    /\ visualCount' = [visualCount EXCEPT !.draws = @ + 1]
    /\ UNCHANGED now

\* one tick of the render loop; drawn is what its drawStrokes() call draws
StrokeRender ==
    /\ visual.animationFrameId
    /\ visualLast.op # "render"
    /\ visual' = render(visual, now)
    /\ visualLast' = [op |-> "render", args |-> <<>>,
                      drawn |-> IF ~visual.ctx \/ ~visual.canvas THEN <<>>
                                ELSE drawStrokes(visual)]
    /\ UNCHANGED <<visualCount, now>>

StrokesNext ==
    \/ VisualInit
    \/ StrokeDown
    \/ StrokeMove
    \/ StrokeUp
    \/ StrokeRender

SpecStrokesInit == VisualConstructFrom(FirstSeed) /\ RngIdle /\ MapIdle /\ AudioIdle /\ SessionIdle
SpecStrokesNext == StrokesNext /\ UNCHANGED <<rngVars, mapVars, audioVars, sessionVars>>
SpecStrokes == SpecStrokesInit /\ [][SpecStrokesNext]_vars

\* C23: the history of completed strokes never holds more than 50
\* strokes; committing a stroke when 50 are held drops the oldest, the
\* strokes kept stay in the order of their commits, and a frame redraws
\* them in that order.
C23_HistoryOfFiftyInOrder ==
    /\ [](Len(visual.completedStrokes) <= MAX_COMPLETED_STROKES)
    /\ [][ /\ visualLast'.op = "endDrawing" =>
                visual'.completedStrokes =
                    IF Len(visual.completedStrokes) = MAX_COMPLETED_STROKES
                    THEN Append(Tail(visual.completedStrokes), visual.currentStroke)
                    ELSE Append(visual.completedStrokes, visual.currentStroke)
           /\ visualLast'.op # "endDrawing" =>
                visual'.completedStrokes = visual.completedStrokes
           /\ (visualLast'.op = "render" /\ visual.ctx /\ visual.canvas) =>
                visualLast'.drawn = visual'.completedStrokes ]_vars

\* the stroke after the fiftieth has been committed, the first one is
\* gone, and a frame has redrawn the fifty that are left
C23_Witness ==
    /\ visualCount.draws = 3 * (MAX_COMPLETED_STROKES + 1)
    /\ Len(visual.completedStrokes) = MAX_COMPLETED_STROKES
    /\ visual.completedStrokes[1].points[1] = StrokePoint(3)
    /\ visual.completedStrokes[MAX_COMPLETED_STROKES].points[1]
           = StrokePoint(3 * MAX_COMPLETED_STROKES)
    /\ visualLast.op = "render"
    /\ visualLast.drawn = visual.completedStrokes

----------------------------------------------------------------------------
(* components/JamSession.tsx: the key handler                              *)
(* js is the component: its engines and mapper, its refs, and the engine   *)
(* operations handleKeyDown has dispatched so far.  A Math.random() value  *)
(* is an input of the handler, given in tenths.                            *)

ESCAPE_HOLD_DURATION == 5000
CELEBRATION_THRESHOLD == 20
CELEBRATION_MILESTONE == 50

\* the component once its init effect has run, at time t; handled is the
\* number of key events it has been given, surprises the number of times
\* the surprise branch of the handler has run, audioInit the state of the
\* promise of AudioEngine.init(), disposed the engines the cleanup of the
\* init effect has disposed
NewJamSession(seed, t) ==
    [ seed |-> seed,
      audio |-> init(NewAudioEngine(seed)),
      tone |-> NewTone,
      visual |-> initCanvas(NewVisualEngine(seed, getRandomScheme(SeededRandom(seed)).val, t),
                            TRUE),
      mapper |-> generateMappings(SeededRandom(seed)),
      escapeStart |-> <<>>,
      escapeProgress |-> Rat(0, 1),
      selectedLayer |-> 1,
      keypressCount |-> 0,
      stopped |-> FALSE,
      dispatched |-> <<>>,
      surprises |-> 0,
      handled |-> 0,
      lastMousePos |-> [x |-> 0, y |-> 0],
      audioInit |-> "resolved",
      disposed |-> <<>> ]

\* an engine operation of the handler is recorded with its arguments
Dispatch(js, op, args) ==
    [js EXCEPT !.dispatched = Append(@, [op |-> op, args |-> args])]

\* the escape branch: stopJam() once the key has been held long enough
HoldEscape(js, t) ==
    With(IF js.escapeStart = <<>> \/ js.escapeStart = <<0>> THEN <<t>> ELSE js.escapeStart,
         LAMBDA start :
        [js EXCEPT !.escapeStart = start,
                   !.escapeProgress = Rat(Min(t - start[1], ESCAPE_HOLD_DURATION),
                                          ESCAPE_HOLD_DURATION \div 100),
                   !.stopped = @ \/ t - start[1] >= ESCAPE_HOLD_DURATION])

\* switch (key): the loop controls
ControlKey(js, key) ==
    CASE key = "q" ->
           With(togglePlayPause(js.audio.loopManager, js.tone), LAMBDA r :
               [js EXCEPT !.audio.loopManager = r.lm, !.tone = r.tone])
      [] key = "w" -> [js EXCEPT !.audio.loopManager = adjustPitch(@, 1)]
      [] key = "e" ->
           With(adjustTempo(js.audio.loopManager, js.tone, Rat(11, 10)), LAMBDA r :
               [js EXCEPT !.audio.loopManager = r.lm, !.tone = r.tone])
      [] key = "a" ->
           With(cycleLayer(js.audio.loopManager), LAMBDA lm :
               [js EXCEPT !.audio.loopManager = lm, !.selectedLayer = lm.selectedLayer])
      [] key = "s" -> [js EXCEPT !.audio.loopManager = adjustPitch(@, -1)]
      [] key = "d" ->
           With(adjustTempo(js.audio.loopManager, js.tone, Rat(9, 10)), LAMBDA r :
               [js EXCEPT !.audio.loopManager = r.lm, !.tone = r.tone])
      [] OTHER -> js

\* audioEngine.playNote(mapping.params.synthMode || 'melody')
NoteFor(js, mapping, func, t) ==
    IF ~(includes(func, "synth") \/ func = "percussion") THEN js
    ELSE With(IF mapping.params.synthMode # Undefined
              THEN mapping.params.synthMode ELSE "melody", LAMBDA mode :
         With(playNote(js.audio, js.tone, mode, t), LAMBDA r :
             Dispatch([js EXCEPT !.audio = r.audio, !.tone = r.tone],
                      "playNote", <<mode>>)))

\* audioEngine.playSoundEffect()
SoundEffectFor(js, wanted, t) ==
    IF ~wanted THEN js
    ELSE With(playSoundEffect(js.audio, js.tone, t), LAMBDA r :
             Dispatch([js EXCEPT !.audio = r.audio, !.tone = r.tone],
                      "playSoundEffect", <<>>))

\* Math.random() > 0.7 ? startBeatLoop() : modifyLoops()
BeatPatternFor(js, func, random) ==
    IF func # "beat-pattern" THEN js
    ELSE IF random.beat > 7
    THEN With(startBeatLoop(js.audio, js.tone), LAMBDA r :
             Dispatch([js EXCEPT !.audio = r.audio, !.tone = r.tone],
                      "startBeatLoop", <<>>))
    ELSE With(modifyLoops(js.audio, js.tone), LAMBDA r :
             [js EXCEPT !.audio = r.audio, !.tone = r.tone])

\* the function spawns a visual element
Spawns(func) ==
    \/ includes(func, "shape")
    \/ includes(func, "symbol")
    \/ includes(func, "word")
    \/ includes(func, "animal")
    \/ includes(func, "number")

\* the visual branch, taken for the first function that spawns
VisualFor(js, mapping, func, visualSpawned, t) ==
    IF visualSpawned \/ ~Spawns(func) THEN js
    ELSE With(IF mapping.params.elementType # Undefined
              THEN mapping.params.elementType ELSE "shape", LAMBDA elementType :
         IF includes(func, "animation")
         THEN IF func = "animation-explode"
              THEN Dispatch([js EXCEPT !.visual =
                                 addAnimatedElement(@, elementType, "explode", t)],
                            "addAnimatedElement", <<elementType, "explode">>)
              ELSE Dispatch([js EXCEPT !.visual =
                                 addAnimatedElement(@, elementType, Undefined, t)],
                            "addAnimatedElement", <<elementType, Undefined>>)
         ELSE Dispatch([js EXCEPT !.visual = addPermanentElement(@, elementType, NoObject, t)],
                       "addPermanentElement", <<elementType>>))

\* the background branch: the scheme is drawn from new SeededRandom(Date.now())
BackgroundFor(js, func, t) ==
    IF ~includes(func, "backgroundColor") THEN js
    ELSE With(getRandomScheme(SeededRandom(t)), LAMBDA schemes :
             Dispatch([js EXCEPT !.visual = setBackgroundColor(@, schemes.val.background)],
                      "setBackgroundColor", <<schemes.val.background>>))

\* visualEngine.flashMath()
MathFlashFor(js, func, t) ==
    IF func # "math-flash" THEN js
    ELSE Dispatch([js EXCEPT !.visual = flashMath(@, t)], "flashMath", <<>>)

\* the body of mapping.functions.forEach for one function
RunFunction(js, mapping, func, visualSpawned, random, t) ==
    With(NoteFor(js, mapping, func, t), LAMBDA noted :
    With(SoundEffectFor(noted, func = "sound-effect", t), LAMBDA sounded :
    With(BeatPatternFor(sounded, func, random), LAMBDA looped :
    With(VisualFor(looped, mapping, func, visualSpawned, t), LAMBDA spawned :
    With(BackgroundFor(spawned, func, t), LAMBDA coloured :
        [ js |-> MathFlashFor(coloured, func, t),
          visualSpawned |-> visualSpawned \/ Spawns(func) ])))))

\* mapping.functions.forEach from function i on
RECURSIVE RunFunctions(_, _, _, _, _, _)
RunFunctions(js, mapping, i, visualSpawned, random, t) ==
    IF i > Len(mapping.functions) THEN [js |-> js, visualSpawned |-> visualSpawned]
    ELSE With(RunFunction(js, mapping, mapping.functions[i], visualSpawned, random, t),
              LAMBDA ran :
             RunFunctions(ran.js, mapping, i + 1, ran.visualSpawned, random, t))

comboTypes == << "shape", "symbol", "animal" >>

\* the combo bonus: comboTypes[Math.floor(Math.random() * comboTypes.length)]
ComboVisual(js, visualSpawned, isCombo, random, t) ==
    IF ~(isCombo /\ ~visualSpawned) THEN js
    ELSE With(comboTypes[(random.type * Len(comboTypes)) \div 10 + 1], LAMBDA comboType :
             Dispatch([js EXCEPT !.visual = addAnimatedElement(@, comboType, "explode", t)],
                      "addAnimatedElement", <<comboType, "explode">>))

\* celebrate()
celebrate(js, t) ==
    With(playChord(js.audio, js.tone, << "C4", "E4", "G4" >>, t), LAMBDA r :
        [js EXCEPT !.audio = r.audio, !.tone = r.tone,
                   !.visual = burstParticles(@, t)])

\* celebration at milestones
Milestone(js, t) ==
    IF js.keypressCount = CELEBRATION_THRESHOLD THEN celebrate(js, t)
    ELSE IF js.keypressCount % CELEBRATION_MILESTONE = 0 THEN celebrate(js, t)
    ELSE js

\* the surprise key: playSurpriseChord() and burstParticles(30)
Surprise(js, t) ==
    With(playSurpriseChord(js.audio, js.tone, t), LAMBDA r :
        [js EXCEPT !.audio = r.audio, !.tone = r.tone,
                   !.visual = burstParticles(@, t),
                   !.surprises = @ + 1])

\* handleKeyDown from the mapping on; key is lower case
Mapped(js, mapping, key, random, t) ==
    With(RunFunctions([js EXCEPT !.keypressCount = @ + 1], mapping, 1, FALSE, random, t),
         LAMBDA ran :
    With(ComboVisual(ran.js, ran.visualSpawned, random.combo < 4, random, t), LAMBDA bonus :
    With(SoundEffectFor(bonus, random.combo < 4, t), LAMBDA extra :
    With(Milestone(extra, t), LAMBDA celebrated :
        IF isSurpriseKey(js.mapper, key) THEN Surprise(celebrated, t) ELSE celebrated))))

\* e.key.startsWith('F') && e.key.length <= 3, on the keys given
FKeys == { "F", "F5", "F11" }

\* handleKeyDown(e) at time t, for an event without modifier keys; the
\* space bar is the key " "
handleKeyDown(js, key, random, t) ==
    IF key = " " THEN js
    ELSE IF key = "Tab" \/ key \in FKeys \/ key = "Meta" \/ key = "OS" THEN js
    ELSE IF toLowerCase(key) = "escape" THEN HoldEscape(js, t)
    ELSE With(ControlKey([js EXCEPT !.escapeStart = <<>>, !.escapeProgress = Rat(0, 1)],
                         toLowerCase(key)), LAMBDA controlled :
         With(IF controlled.mapper = NoObject THEN NoObject
              ELSE getMapping(controlled.mapper, toLowerCase(key)), LAMBDA mapping :
             IF mapping = NoObject THEN controlled
             ELSE Mapped(controlled, mapping, toLowerCase(key), random, t)))

\* the hold is left as it is
handleKeyUpKeepingHold(js, key) == js

\* handleKeyUp(e)
handleKeyUp(js, key) ==
    IF toLowerCase(key) = "escape"
    THEN [js EXCEPT !.escapeStart = <<>>, !.escapeProgress = Rat(0, 1)]
    ELSE js

----------------------------------------------------------------------------
(* SpecSession: a session and its replay.  Both are made from one seed;    *)
(* the original is given key events, the replay is given the same events   *)
(* in the same order, later.                                               *)

Original == "original"
Replay == "replay"

\* keys that reach the branches of the handler: a beat pattern, a
\* background, a note, a loop control in upper case, the escape key and a
\* blocked key
SessionKeys == { "2", "3", "n", "A", "Escape", "Tab" }

\* Math.random() values, in tenths, for isCombo, the beat pattern and the
\* combo type
MathRandom == { 1, 9 }
MathRandoms == [combo : MathRandom, beat : MathRandom, type : MathRandom]

SessionStart ==
    /\ \E seed \in FirstSeed :
           session = [i \in {Original, Replay} |-> NewJamSession(seed, 0)]
    /\ keys = <<>>
    /\ now = 0

\* a key event of the original session
KeyDown(key, random) ==
    /\ Len(keys) < MaxKeys
    /\ ~session[Original].stopped
    /\ session' = [session EXCEPT ![Original] =
                       [handleKeyDown(@, key, random, now) EXCEPT !.handled = @ + 1]]
    /\ keys' = Append(keys, key)
    /\ UNCHANGED now

\* the next key event of the replay
ReplayKeyDown(random) ==
    /\ session[Replay].handled < Len(keys)
    /\ ~session[Replay].stopped
    /\ session' = [session EXCEPT ![Replay] =
                       [handleKeyDown(@, keys[session[Replay].handled + 1], random, now)
                           EXCEPT !.handled = @ + 1]]
    /\ UNCHANGED <<keys, now>>

\* the timers of the component that are due at time t run, in order
RECURSIVE RunDueTimers(_, _)
RunDueTimers(js, t) ==
    IF DueAt(js.tone, t) = {} THEN js
    ELSE With(runTimer(js.audio, js.tone, FirstDueAt(js.tone, t)), LAMBDA r :
             RunDueTimers([js EXCEPT !.audio = r.audio, !.tone = r.tone], t))

\* time passes, and the timers that come due run before the next event
SessionClock ==
    /\ now + FrameGap <= MaxFrameClock
    /\ now' = now + FrameGap
    /\ session' = [i \in DOMAIN session |-> RunDueTimers(session[i], now + FrameGap)]
    /\ UNCHANGED keys

SessionNext ==
    \/ \E key \in SessionKeys, random \in MathRandoms : KeyDown(key, random)
    \/ \E random \in MathRandoms : ReplayKeyDown(random)
    \/ SessionClock

SpecSessionInit == SessionStart /\ RngIdle /\ MapIdle /\ AudioIdle /\ VisualIdle
SpecSessionNext == SessionNext /\ UNCHANGED <<rngVars, mapVars, audioVars, visualVars>>
SpecSession == SpecSessionInit /\ [][SpecSessionNext]_vars

\* C2: two sessions made from one seed and given the same key events have
\* dispatched the same engine operations (playNote, playSoundEffect,
\* startBeatLoop, addPermanentElement, addAnimatedElement, flashMath,
\* setBackgroundColor) with the same arguments, in the same order.
C2_ReplayDispatchesTheSame ==
    session[Replay].handled = session[Original].handled =>
        session[Replay].dispatched = session[Original].dispatched

----------------------------------------------------------------------------
(* SpecLayers: two sessions made from one seed, each given key events of   *)
(* its own: beat patterns, notes and layer controls, in any order          *)

LayerKeys == { "2", "n", "a" }
LayerRandoms == { [combo |-> 9, beat |-> 9, type |-> 1],
                  [combo |-> 1, beat |-> 9, type |-> 1],
                  [combo |-> 9, beat |-> 1, type |-> 1] }

\* a key event of session i; the second session is given fewer events
LayerKeyDown(i, key, random) ==
    /\ session[i].handled < (IF i = Original THEN MaxEvents ELSE MaxKeys)
    /\ session' = [session EXCEPT ![i] =
                       [handleKeyDown(@, key, random, now) EXCEPT !.handled = @ + 1]]
    /\ UNCHANGED <<keys, now>>

LayersNext ==
    \E i \in {Original, Replay}, key \in LayerKeys, random \in LayerRandoms :
        LayerKeyDown(i, key, random)

SpecLayersInit == SessionStart /\ RngIdle /\ MapIdle /\ AudioIdle /\ VisualIdle
SpecLayersNext == LayersNext /\ UNCHANGED <<rngVars, mapVars, audioVars, visualVars>>
SpecLayers == SpecLayersInit /\ [][SpecLayersNext]_vars

\* the layers of the loops session i has started, in the order of the
\* startBeatLoop calls: each call makes one sequence for the layer drawn
StartedOn(i) ==
    [k \in DOMAIN session[i].tone.sequences |-> session[i].tone.sequences[k].layer]

\* C25: for one seed, the k-th loop started lands on the same layer in
\* every session, whatever else the sessions were given in between.
C25_SameLayersInEverySession ==
    \A k \in DOMAIN StartedOn(Original) \cap DOMAIN StartedOn(Replay) :
        StartedOn(Original)[k] = StartedOn(Replay)[k]

\* both sessions have started two loops, one of them with notes played
\* and the selected layer moved in between, the other not
C25_Witness ==
    /\ Len(StartedOn(Original)) >= 2
    /\ Len(StartedOn(Replay)) >= 2
    /\ session[Original].audio.rng # session[Replay].audio.rng
    /\ session[Original].audio.loopManager.selectedLayer
           # session[Replay].audio.loopManager.selectedLayer

----------------------------------------------------------------------------
(* SpecSurprise: one session whose surprise key is pressed, with another   *)
(* key and the passing of time in between                                  *)

\* the key the mapper of the session drew as its surprise key
SurpriseKeys == { key \in Range(randomKeys) : isSurpriseKey(session[Original].mapper, key) }

PressSurprise(random) == \E key \in SurpriseKeys : KeyDown(key, random)

PressOther(random) == \E key \in { "n", "3" } \ SurpriseKeys : KeyDown(key, random)

SurpriseNext ==
    \/ \E random \in MathRandoms : PressSurprise(random)
    \/ \E random \in MathRandoms : PressOther(random)
    \/ SessionClock

SpecSurpriseInit == SessionStart /\ RngIdle /\ MapIdle /\ AudioIdle /\ VisualIdle
SpecSurpriseNext == SurpriseNext /\ UNCHANGED <<rngVars, mapVars, audioVars, visualVars>>
SpecSurprise == SpecSurpriseInit /\ [][SpecSurpriseNext]_vars

\* C12: within one session the surprise effect (playSurpriseChord and the
\* particle burst) has run at most once, however often the surprise key
\* was pressed.
C12_SurpriseAtMostOnce == session[Original].surprises <= 1

----------------------------------------------------------------------------
(* SpecReward: one session given keys that have a mapping: a key whose     *)
(* only tag is an animation, a beat pattern, a key that spawns a symbol    *)
(* and a sound effect                                                      *)

RewardKeys == { "g", "2", "a", "y" }

RewardNext == \E key \in RewardKeys, random \in MathRandoms : KeyDown(key, random)

SpecRewardInit == SessionStart /\ RngIdle /\ MapIdle /\ AudioIdle /\ VisualIdle
SpecRewardNext == RewardNext /\ UNCHANGED <<rngVars, mapVars, audioVars, visualVars>>
SpecReward == SpecRewardInit /\ [][SpecRewardNext]_vars

\* the engine operations that produce sound or picture
OutputOps == { "playNote", "playSoundEffect", "startBeatLoop", "addPermanentElement",
               "addAnimatedElement", "flashMath", "setBackgroundColor" }

\* C29: every key event whose symbol has a mapping makes the handler call
\* at least one of playNote, playSoundEffect, startBeatLoop,
\* addPermanentElement, addAnimatedElement, flashMath and
\* setBackgroundColor.
C29_EveryKeypressCreates ==
    [][ ( /\ Len(keys') = Len(keys) + 1
          /\ getMapping(session[Original].mapper,
                        toLowerCase(keys'[Len(keys')])) # NoObject ) =>
          \E k \in (Len(session[Original].dispatched) + 1)
                      ..Len(session'[Original].dispatched) :
              session'[Original].dispatched[k].op \in OutputOps ]_vars

----------------------------------------------------------------------------
(* SpecEscape: one session given key-down and key-up events of the escape  *)
(* key, of a regular key, of a blocked key and of the space bar, while     *)
(* time passes.  keys is the log of the events with their times.           *)

HoldEpoch == 1000
HoldStep == 2500
MaxHoldClock == 8500
MaxHoldEvents == 4

HoldKeys == { "Escape", "n", "Tab", " " }

EscapeStart ==
    /\ \E seed \in FirstSeed : session = [i \in {Original} |-> NewJamSession(seed, HoldEpoch)]
    /\ keys = <<>>
    /\ now = HoldEpoch

HoldKeyDown(key) ==
    /\ Len(keys) < MaxHoldEvents
    /\ ~session[Original].stopped
    /\ session' = [session EXCEPT ![Original] =
                       [handleKeyDown(@, key, [combo |-> 9, beat |-> 9, type |-> 1], now)
                           EXCEPT !.handled = @ + 1]]
    /\ keys' = Append(keys, [type |-> "keydown", key |-> key, at |-> now])
    /\ UNCHANGED now

HoldKeyUp(key) ==
    /\ Len(keys) < MaxHoldEvents
    /\ ~session[Original].stopped
    /\ session' = [session EXCEPT ![Original] = handleKeyUp(@, key)]
    /\ keys' = Append(keys, [type |-> "keyup", key |-> key, at |-> now])
    /\ UNCHANGED now

HoldClock ==
    /\ now + HoldStep <= MaxHoldClock
    /\ now' = now + HoldStep
    /\ session' = [i \in DOMAIN session |-> RunDueTimers(session[i], now + HoldStep)]
    /\ UNCHANGED keys

EscapeNext ==
    \/ \E key \in HoldKeys : HoldKeyDown(key)
    \/ \E key \in HoldKeys : HoldKeyUp(key)
    \/ HoldClock

SpecEscapeInit == EscapeStart /\ RngIdle /\ MapIdle /\ AudioIdle /\ VisualIdle
SpecEscapeNext == EscapeNext /\ UNCHANGED <<rngVars, mapVars, audioVars, visualVars>>
SpecEscape == SpecEscapeInit /\ [][SpecEscapeNext]_vars

EscapeDown(event) == event.type = "keydown" /\ toLowerCase(event.key) = "escape"

\* the event ends a hold: the escape key goes up, or a regular key (not
\* the space bar, not a blocked key) goes down
EndsHold(event) ==
    \/ event.type = "keyup" /\ toLowerCase(event.key) = "escape"
    \/ /\ event.type = "keydown"
       /\ toLowerCase(event.key) # "escape"
       /\ event.key \notin { " ", "Tab", "Meta", "OS" } \cup FKeys

\* C30: the session is stopped only by an Escape keydown that comes 5000
\* ms or more after the Escape keydown that began the hold, with no
\* Escape keyup and no regular keypress between the two; one keypress
\* alone never stops it.
C30_StoppedOnlyByHeldEscape ==
    session[Original].stopped =>
        \E i \in DOMAIN keys :
            /\ i < Len(keys)
            /\ EscapeDown(keys[i])
            /\ EscapeDown(keys[Len(keys)])
            /\ keys[Len(keys)].at - keys[i].at >= ESCAPE_HOLD_DURATION
            /\ \A m \in (i + 1)..(Len(keys) - 1) : ~EndsHold(keys[m])

\* a first hold was given up when the key went up, and a second one,
\* of 5000 ms, has stopped the session
C30_Witness ==
    /\ session[Original].stopped
    /\ Len(keys) = 4
    /\ EscapeDown(keys[1])
    /\ keys[2].type = "keyup" /\ keys[2].key = "Escape"
    /\ keys[4].at - keys[3].at = ESCAPE_HOLD_DURATION

----------------------------------------------------------------------------
(* components/JamSession.tsx: the init effect and its cleanup, and the     *)
(* drawing handlers.  A ref that has not been set is NoObject.  Pointer    *)
(* positions are given in canvas coordinates (the canvas is shown at its   *)
(* own size, at the origin of the page).                                   *)

\* the init effect up to `await audioEngineRef.current.init()`
BeginInit(seed, t) ==
    [NewJamSession(seed, t) EXCEPT
        !.audio = NewAudioEngine(seed),
        !.visual = NoObject,
        !.mapper = NoObject,
        !.audioInit = "pending"]

\* the rest of the init effect, once the promise is fulfilled, at time t
CompleteInit(js, t) ==
    [js EXCEPT
        !.audio = init(@),
        !.visual = initCanvas(NewVisualEngine(js.seed,
                                  getRandomScheme(SeededRandom(js.seed)).val, t), TRUE),
        !.mapper = generateMappings(SeededRandom(js.seed)),
        !.audioInit = "resolved"]

\* the promise is rejected: the async function ends there
FailInit(js) == [js EXCEPT !.audioInit = "rejected"]

\* the cleanup of the init effect
cleanup(js) ==
    With(IF js.audio = NoObject THEN Unchanged(js.audio, js.tone)
         ELSE AudioEngine_dispose(js.audio, js.tone), LAMBDA r :
        [js EXCEPT
            !.audio = r.audio,
            !.tone = r.tone,
            !.visual = IF @ = NoObject THEN @ ELSE VisualEngine_dispose(@),
            !.disposed = (IF js.audio = NoObject THEN <<>> ELSE << "audio" >>)
                         \o (IF js.visual = NoObject THEN <<>> ELSE << "visual" >>)])

\* handleSpaceDown(e) for the space bar
handleSpaceDown(js) ==
    IF js.visual = NoObject THEN js
    ELSE IF getIsDrawing(js.visual) THEN js
    ELSE [js EXCEPT !.visual = startDrawing(@, js.lastMousePos)]

\* handleSpaceUp(e) for the space bar
handleSpaceUp(js) ==
    IF js.visual = NoObject THEN js ELSE [js EXCEPT !.visual = endDrawing(@)]

\* handleMouseMove(e)
handleMouseMove(js, point) ==
    With([js EXCEPT !.lastMousePos = point], LAMBDA moved :
        IF moved.visual = NoObject THEN moved
        ELSE IF getIsDrawing(moved.visual)
             THEN [moved EXCEPT !.visual = continueDrawing(@, point)]
             ELSE moved)

----------------------------------------------------------------------------
(* SpecLifecycle: one component from its mounting to its unmounting.  The  *)
(* listeners are attached when the component mounts and removed when it    *)
(* unmounts; the promise of AudioEngine.init() is fulfilled, rejected or   *)
(* left pending.                                                           *)

LifeKeys == { "r", "2", "j", "l" }

\* Math.random() values for a key event: no combo, and a new beat loop
LifeRandom == [combo |-> 9, beat |-> 9, type |-> 1]

Mounted(js) == js.disposed = <<>> /\ js.handled < MaxEvents

LifeStart ==
    /\ \E seed \in FirstSeed : session = [i \in {Original} |-> BeginInit(seed, 0)]
    /\ keys = <<>>
    /\ now = 0

InitResolves ==
    /\ session[Original].audioInit = "pending"
    /\ session' = [session EXCEPT ![Original] = CompleteInit(@, now)]
    /\ UNCHANGED <<keys, now>>

InitRejects ==
    /\ session[Original].audioInit = "pending"
    /\ session' = [session EXCEPT ![Original] = FailInit(@)]
    /\ UNCHANGED <<keys, now>>

LifeKeyDown(key) ==
    /\ Mounted(session[Original])
    /\ session' = [session EXCEPT ![Original] =
                       [handleKeyDown(@, key, LifeRandom, now) EXCEPT !.handled = @ + 1]]
    /\ keys' = Append(keys, key)
    /\ UNCHANGED now

SpaceDown ==
    /\ Mounted(session[Original])
    /\ session' = [session EXCEPT ![Original] =
                       [handleSpaceDown(@) EXCEPT !.handled = @ + 1]]
    /\ keys' = Append(keys, " ")
    /\ UNCHANGED now

SpaceUp ==
    /\ Mounted(session[Original])
    /\ session' = [session EXCEPT ![Original] =
                       [handleSpaceUp(@) EXCEPT !.handled = @ + 1]]
    /\ UNCHANGED <<keys, now>>

MouseMove(point) ==
    /\ Mounted(session[Original])
    /\ session' = [session EXCEPT ![Original] =
                       [handleMouseMove(@, point) EXCEPT !.handled = @ + 1]]
    /\ UNCHANGED <<keys, now>>

Cleanup ==
    /\ session[Original].disposed = <<>>
    /\ session' = [session EXCEPT ![Original] = cleanup(@)]
    /\ UNCHANGED <<keys, now>>

LifeNext ==
    \/ InitResolves
    \/ InitRejects
    \/ \E key \in LifeKeys : LifeKeyDown(key)
    \/ SpaceDown
    \/ SpaceUp
    \/ \E point \in Points : MouseMove(point)
    \/ SessionClock
    \/ Cleanup

SpecLifecycleInit == LifeStart /\ RngIdle /\ MapIdle /\ AudioIdle /\ VisualIdle
SpecLifecycleNext == LifeNext /\ UNCHANGED <<rngVars, mapVars, audioVars, visualVars>>
SpecLifecycle == SpecLifecycleInit /\ [][SpecLifecycleNext]_vars

\* the sequence of a loop layer of the component is running
Sounding(js, i) ==
    /\ js.audio.loopManager.layers[i].sequence # 0
    /\ Live(js.tone.sequences[js.audio.loopManager.layers[i].sequence])

\* C13: once the cleanup has run AudioEngine.dispose and
\* VisualEngine.dispose, no loop layer has a running sequence, the set of
\* active notes is empty, the render loop is stopped, and the permanent
\* elements, the animated elements, the completed strokes, the stroke in
\* progress and the math flashes are all empty.
C13_NothingLeftAfterCleanup ==
    session[Original].disposed = << "audio", "visual" >> =>
        /\ \A i \in LayerIds : ~Sounding(session[Original], i)
        /\ session[Original].audio.activeNotes = {}
        /\ ~session[Original].visual.animationFrameId
        /\ session[Original].visual.permanentElements = <<>>
        /\ session[Original].visual.animatedElements = <<>>
        /\ session[Original].visual.completedStrokes = <<>>
        /\ session[Original].visual.currentStroke = NoObject
        /\ session[Original].visual.mathFlashes = <<>>

\* C14: when AudioEngine.init() has failed, the component has its
\* VisualEngine, initialized on the canvas, and its KeyboardMapper all the
\* same.
C14_VisualsWithoutAudio ==
    session[Original].audioInit = "rejected" =>
        /\ session[Original].visual # NoObject
        /\ session[Original].mapper # NoObject

----------------------------------------------------------------------------
(* SpecMixer: the operations of the mixer on an engine that has or has not *)
(* been initialized, the timers they set and the clock                     *)

MixerCalls == audioCount.plays + audioCount.loops

MixerPlayNote(mode) == MixerCalls < MaxMixerCalls /\ PlayNote(mode)

MixerStartBeatLoop == MixerCalls < MaxMixerCalls /\ StartBeatLoop

PlaySoundEffect ==
    /\ MixerCalls < MaxMixerCalls
    /\ \E r \in {playSoundEffect(audio, tone, now)} :
           /\ audio' = r.audio
           /\ tone' = r.tone
           /\ audioLast' = Last("playSoundEffect", <<>>, r)
    /\ audioCount' = [audioCount EXCEPT !.plays = @ + 1]
    /\ UNCHANGED now

\* the chord of celebrate()
PlayChord ==
    /\ MixerCalls < MaxMixerCalls
    /\ \E r \in {playChord(audio, tone, << "C4", "E4", "G4" >>, now)} :
           /\ audio' = r.audio
           /\ tone' = r.tone
           /\ audioLast' = Last("playChord", << "C4", "E4", "G4" >>, r)
    /\ audioCount' = [audioCount EXCEPT !.plays = @ + 1]
    /\ UNCHANGED now

PlaySurpriseChord ==
    /\ MixerCalls < MaxMixerCalls
    /\ \E r \in {playSurpriseChord(audio, tone, now)} :
           /\ audio' = r.audio
           /\ tone' = r.tone
           /\ audioLast' = Last("playSurpriseChord", <<>>, r)
    /\ audioCount' = [audioCount EXCEPT !.plays = @ + 1]
    /\ UNCHANGED now

\* the timer that is due first runs
RunTimer ==
    /\ DueAt(tone, now) # {}
    /\ \E r \in {runTimer(audio, tone, FirstDueAt(tone, now))} :
           /\ audio' = r.audio
           /\ tone' = r.tone
           /\ audioLast' = Last("timer", <<>>, r)
    /\ UNCHANGED <<audioCount, now>>

MixerClock ==
    /\ now + EffectStep <= MaxEffectClock
    /\ now' = now + EffectStep
    /\ UNCHANGED audioVars

MixerNext ==
    \/ AudioInit
    \/ \E mode \in VoiceModes : MixerPlayNote(mode)
    \/ PlaySoundEffect
    \/ MixerStartBeatLoop
    \/ PlayChord
    \/ PlaySurpriseChord
    \/ RunTimer
    \/ MixerClock

SpecMixerInit == AudioConstruct /\ RngIdle /\ MapIdle /\ VisualIdle /\ SessionIdle
SpecMixerNext == MixerNext /\ UNCHANGED <<rngVars, mapVars, visualVars, sessionVars>>
SpecMixer == SpecMixerInit /\ [][SpecMixerNext]_vars

MixerOps == { "playNote", "playSoundEffect", "startBeatLoop", "playChord",
              "playSurpriseChord" }

\* C15: a mixer operation (playNote, playSoundEffect, startBeatLoop,
\* playChord, playSurpriseChord) called before init() has completed makes
\* no call on a voice and leaves the engine as it was: the state of the
\* generator, the set of active notes and the four loop layers, and with
\* them the sequences and timers of the backend.
C15_NoOpBeforeInit ==
    [][ ~audio.initialized /\ audioLast'.op \in MixerOps /\ audioCount' # audioCount =>
          /\ audioLast'.calls = <<>>
          /\ audio'.rng = audio.rng
          /\ audio'.activeNotes = audio.activeNotes
          /\ audio'.loopManager = audio.loopManager
          /\ tone' = tone ]_vars

\* C16: once every pending timer has fired, every voice that
\* playSoundEffect created (honk, beep, boop, either animal sound, whoosh,
\* zap) has been disposed.
C16_EffectVoicesDisposed ==
    tone.timers = <<>> => \A k \in DOMAIN tone.effects : tone.effects[k].disposed

----------------------------------------------------------------------------
(* SpecSeed: one generator built from an integer seed, and its next()      *)
(* calls                                                                   *)

\* seeds: the least and the greatest the session draws, 42, a negative
\* integer, the greatest register, and a Date.now() value of the
\* background change (1762300800000)
SeedInputs ==
    { Integer(0), Integer(42), Integer(999999), Integer(-1000),
      [neg |-> FALSE, mag |-> << 65535, 65535, 0, 0, 0 >>],
      [neg |-> FALSE, mag |-> << 11264, 20816, 410, 0, 0 >>] }

SeedInit ==
    /\ \E x \in SeedInputs : rngStore = << x >>
    /\ rngScript = <<>>
    /\ rngHist = <<>>

\* one next() call: the seed before it, the seed after it and the seed the
\* recurrence gives are recorded
SeedNextCall ==
    /\ Len(rngHist) < MaxDraws
    /\ rngStore' = << nextSeed(rngStore[1]) >>
    /\ rngHist' = Append(rngHist, [ before |-> rngStore[1],
                                    after |-> nextSeed(rngStore[1]),
                                    recurrence |-> Recurrence(rngStore[1]) ])
    /\ UNCHANGED rngScript

SpecSeedInit == SeedInit /\ MapIdle /\ AudioIdle /\ ClockIdle /\ VisualIdle /\ SessionIdle
SpecSeedNext == SeedNextCall /\ UNCHANGED <<mapVars, audioVars, now, visualVars, sessionVars>>
SpecSeed == SpecSeedInit /\ [][SpecSeedNext]_vars

\* C17: for any integer seed, each next() call sets the state to
\* (state * 1664525 + 1013904223) mod 2^32, which is at least 0 and below
\* 2^32, and returns that state over 2^32, a value in [0, 1).
C17_NextFollowsRecurrence ==
    \A k \in DOMAIN rngHist :
        /\ ~rngHist[k].after.neg
        /\ rngHist[k].after.mag = rngHist[k].recurrence

----------------------------------------------------------------------------
(* SpecDraws: one generator built from an integer seed, and its int() and  *)
(* choice() calls                                                          *)

\* the ranges of the callers (1..4, -3..3), a range of one value and one
\* near the limit of the model's product
IntRanges == { <<1, 4>>, <<-3, 3>>, <<7, 7>>, <<0, 9999>> }

\* the lists of the callers: a list of one element and the root notes
ChoiceLists == { <<"only">>, ROOT_NOTES }

DrawsInit ==
    /\ \E x \in SeedInputs : rngStore = << x >>
    /\ rngScript = <<>>
    /\ rngHist = <<>>

IntCall(min, max) ==
    /\ Len(rngHist) < MaxCalls
    /\ rngStore' = << intOfSeed(rngStore[1], min, max).seed >>
    /\ rngHist' = Append(rngHist, [ op |-> "int", before |-> rngStore[1],
                                    min |-> min, max |-> max,
                                    index |-> intOfSeed(rngStore[1], min, max).val,
                                    val |-> Undefined ])
    /\ UNCHANGED rngScript

ChoiceCall(array) ==
    /\ Len(rngHist) < MaxCalls
    /\ rngStore' = << choiceOfSeed(rngStore[1], array).seed >>
    /\ rngHist' = Append(rngHist, [ op |-> "choice", before |-> rngStore[1],
                                    min |-> 0, max |-> Len(array) - 1,
                                    index |-> choiceOfSeed(rngStore[1], array).index,
                                    val |-> choiceOfSeed(rngStore[1], array).val ])
    /\ UNCHANGED rngScript

DrawsNext ==
    \/ \E r \in IntRanges : IntCall(r[1], r[2])
    \/ \E array \in ChoiceLists : ChoiceCall(array)

SpecDrawsInit == DrawsInit /\ MapIdle /\ AudioIdle /\ ClockIdle /\ VisualIdle /\ SessionIdle
SpecDrawsNext == DrawsNext /\ UNCHANGED <<mapVars, audioVars, now, visualVars, sessionVars>>
SpecDraws == SpecDrawsInit /\ [][SpecDrawsNext]_vars

DrawsOfNonNegativeSeeds ==
    \A k \in DOMAIN rngHist :
        ~rngHist[k].before.neg =>
            /\ rngHist[k].index \in rngHist[k].min..rngHist[k].max
            /\ rngHist[k].op = "choice" => rngHist[k].val # Undefined

====
